---- MODULE Spec2Model ----
(***************************************************************************)
(* Credential cipher, wallet registry and rate limiter of the Discord bot. *)
(*                                                                         *)
(* Strings are modelled as the sequence of their ':'-separated components  *)
(* (what String.prototype.split(':') returns); a component is a record.    *)
(* JavaScript `undefined` is the empty sequence: no component at all, so   *)
(* that ''.split(':') = [''] (one empty component) stays distinct from it. *)
(***************************************************************************)
EXTENDS Integers, Sequences, FiniteSets, TLC

VARIABLES
  build,      \* which SecurityManager the tree links, on which Node runtime
  ivCtr,      \* number of crypto.randomBytes(16) draws made so far
  blob,       \* cipher harness: the string handed to decrypt next
  orig,       \* cipher harness: plaintext of the encrypt call that made blob
  mods,       \* cipher harness: what was changed in blob since encrypt
  made,       \* cipher harness: blobs returned by encrypt so far
  cev,        \* cipher harness: the last cipher call and its outcome
  goat,       \* which GoatService class the tree links
  now,        \* Date.now() / new Date()
  wallets,    \* WalletManager.wallets: userId -> UserWallet object (0: no entry)
  heap,       \* the UserWallet objects ever created, by object identity
  tasks,      \* the WalletManager calls suspended at an await
  reg,        \* history: the provider last stored for a user by register
  ev,         \* history: the step taken last
  rateLimitMap,  \* SecurityManager.rateLimitMap: userId -> {count, resetTime}
  noClean,    \* history: the map as the same calls leave it without any cleanup
  rl,         \* history: per user, the admissions under the counter made last
  rev,        \* history: the rate limiter call made last
  tempWalletData,  \* CommandManager.tempWalletData: userId -> setup data
  tools,      \* the tools of the GoatService the CommandManager holds
  cmd,        \* history: the interaction step taken last
  handlers,   \* the command handlers suspended at an await, by interaction
  pf,         \* history: the validator call made last
  config,     \* config.rateLimiting as environment.ts parsed it
  hist        \* history: one limit and window, and the admissions under them

hvars == <<blob, orig, mods, made, cev>>
rvars == <<goat, now, wallets, heap, tasks, reg, ev>>
lvars == <<rateLimitMap, noClean, rl, rev>>
cvars == <<tempWalletData, tools, cmd, handlers>>
ovars == <<lvars, cvars, pf, config, hist>>
vars == <<build, ivCtr, hvars, rvars, lvars, cvars, pf, config, hist>>

-----------------------------------------------------------------------------
(* Bounds *)

MaxIv == 3          \* random IVs drawn in one run

-----------------------------------------------------------------------------
(* Strings *)

Undefined == <<>>
\* a `number | undefined`: the number n is the sequence of n alone, so that it
\* compares with Undefined
Num(n) == <<n>>
Txt(s) == <<[k |-> "t", s |-> s]>>
EmptyStr == Txt("")

\* JavaScript truthiness of a `string | undefined`
Falsy(v) == v = Undefined \/ v = EmptyStr
Truthy(v) == ~Falsy(v)

\* a[i] of the array split(':') returns, undefined past its end
Part(v, i) == IF i <= Len(v) THEN <<v[i]>> ELSE Undefined

\* Concrete plaintexts behind the symbolic names, with their UTF-8 lengths:
\*   "k1" = 46 repeated 32 times (64 hex characters), "k2" = 0x + 64 hex
\*   characters, "a1" = a 20-character API key, "zz" = "not-a-key",
\*   "ff" = "ff", "" = ''.
NameLen(s) ==
  CASE s = "" -> 0
    [] s = "k1" -> 64
    [] s = "k2" -> 66
    [] s = "a1" -> 20
    [] s = "ff" -> 2
    [] s = "zz" -> 9

\* PKCS#7: a plaintext of n bytes fills n \div 16 + 1 cipher blocks
BlockSize == 16

\* Buffer.byteLength of a string: a text by its name, an IV component 32 hex
\* characters, a ciphertext component 32 hex characters for each cipher
\* block, and one byte for each ':' between components
RECURSIVE ByteLen(_)
ByteLen(v) ==
  IF v = Undefined THEN 0
  ELSE (CASE v[1].k = "t" -> NameLen(v[1].s)
          [] v[1].k = "iv" -> 2 * BlockSize
          [] v[1].k = "ct" -> 2 * BlockSize * ((ByteLen(v[1].p) \div BlockSize) + 1))
       + (IF Len(v) > 1 THEN 1 + ByteLen(Tail(v)) ELSE 0)

-----------------------------------------------------------------------------
(* Builds.  The repository holds two SecurityManager classes:              *)
(*   "gcm"   src/services/SecurityManager.ts: calls crypto.createCipherGCM *)
(*           and crypto.createDecipherGCM, which Node's crypto module does *)
(*           not define on any release: the call throws a TypeError inside *)
(*           the try block;                                                *)
(*   "cbc"   the aes-256-cbc class, on Node 18-21 where the deprecated     *)
(*           crypto.createCipher / createDecipher exist;                   *)
(*   "cbc22" the aes-256-cbc class on Node >= 22, which removed them.      *)
(* The README asks for Node 18+, so all three are builds of the program.   *)
Builds == {"gcm", "cbc", "cbc22"}

\* does the factory function the class calls exist in this build?
FactoryDefined(b) == b = "cbc"

\* createCipher(algorithm, password) derives key AND iv from the password
\* (EVP_BytesToKey): the cipher never sees the random iv of encrypt.
DerivedIv == 0

Thrown(msg) == [ok |-> FALSE, val |-> Undefined, err |-> msg]
Returned(v) == [ok |-> TRUE, val |-> v, err |-> ""]

Blocks(p) == (ByteLen(p) \div BlockSize) + 1

\* up: the component has a hex letter in upper case, where encrypt writes
\* lower case
IvComp(n) == [k |-> "iv", n |-> n, hex |-> TRUE]
CtComp(p) ==
  [k |-> "ct", p |-> p, iv |-> DerivedIv, hex |-> TRUE, tam |-> {}, up |-> FALSE]

\* SecurityManager.encrypt; iv is the value crypto.randomBytes(16) returned
encrypt(b, text, iv) ==
  IF text = Undefined \/ ~FactoryDefined(b)
    THEN Thrown("Failed to encrypt data")
    ELSE Returned(<<IvComp(iv), CtComp(text)>>)

Garbled(p) == <<[k |-> "garbled", p |-> p]>>

\* the bytes the 'hex' decoding of a component yields, counted in cipher
\* blocks, when they are whole blocks and at least one (0 otherwise): an IV
\* component is one block, "k1" (64 hex characters) two; "ff" is one byte,
\* and the decoding of the other texts stops at their first characters
ForeignBlocks(c) ==
  CASE c.k = "iv" -> IF c.hex THEN 1 ELSE 0
    [] c.k = "t" -> IF c.s = "k1" THEN 2 ELSE 0
    [] OTHER -> 0

\* decipher.update(c, 'hex', 'utf8') + decipher.final('utf8') of the
\* aes-256-cbc class, as the set of its possible outcomes.  The hex decoding
\* reads upper and lower case alike.  c.tam holds the cipher blocks in which
\* a hex digit was replaced by another: block j then decrypts to garbage and
\* block j+1 with one byte altered.  The padding in the last block decides
\* whether final() throws; when the change reaches that block the outcome
\* depends on the bytes and both are possible.  A ciphertext whose hex is cut
\* short by a non-hex character ends in a wrong final block length or a bad
\* padding.  Whole blocks that are no ciphertext of this key decrypt to
\* garbage, whose last byte is a valid padding for some of them.
DecipherCbc(c) ==
  IF c.k # "ct"
    THEN IF ForeignBlocks(c) > 0
           THEN {Thrown("Failed to decrypt data"), Returned(Garbled(<<c>>))}
           ELSE {Thrown("Failed to decrypt data")}
  ELSE IF ~c.hex THEN {Thrown("Failed to decrypt data")}
  ELSE IF c.tam = {} THEN {Returned(c.p)}
  ELSE IF c.tam \cap {Blocks(c.p) - 1, Blocks(c.p)} = {}
    THEN {Returned(Garbled(c.p))}
    ELSE {Thrown("Failed to decrypt data"), Returned(Garbled(c.p))}

\* a decrypt that hands back the hex it was given, not deciphered
decryptNoDecipher(b, data) ==
  IF Len(data) < 2 THEN {Thrown("Failed to decrypt data")} ELSE {Returned(data)}

\* SecurityManager.decrypt: the set of its possible outcomes
decrypt(b, data) ==
  LET n == IF b = "gcm" THEN 3 ELSE 2     \* components destructured
      missing == \E i \in 1..n : Falsy(Part(data, i))
  IN IF missing \/ ~FactoryDefined(b)
       THEN {Thrown("Failed to decrypt data")}
       ELSE DecipherCbc(data[2])

-----------------------------------------------------------------------------
(* Wallet registry: data *)

Users == {"u1", "u2"}
Tasks == {"t1", "t2"}       \* WalletManager calls that can be in flight at once

MaxTime == 1        \* clock ticks in one run

\* The two GoatService classes of the repository: "stub" prepares plugins and
\* leaves tools empty, "viem" builds a viem account from the private key.
Goats == {"stub", "viem"}

\* a WalletProvider; an optional field that is absent is Undefined
WP(type, pk, rpc, api, addr) ==
  [type |-> type, privateKey |-> pk, rpcUrl |-> rpc,
   crossmintApiKey |-> api, address |-> addr, chainId |-> Undefined]

\* { ...wp, chainId: n }
OnChain(wp, n) == [wp EXCEPT !.chainId = Num(n)]
NoWP == [none |-> TRUE]

\* register inputs: an EVM key without 0x and no address; a 0x-prefixed EVM
\* key with an API key; a Solana wallet with its address, an empty API key
\* and a chainId; an EVM wallet whose key is no private key.
Providers ==
  { WP("evm", Txt("k1"), Txt("r1"), Undefined, Undefined),
    WP("evm", Txt("k2"), Txt("r1"), Txt("a1"), Undefined),
    OnChain(WP("solana", Txt("k1"), Txt("r1"), EmptyStr, Txt("ad")), 137),
    WP("evm", Txt("zz"), Txt("r1"), Undefined, Undefined) }

\* update inputs (Partial<WalletProvider>: a function on the keys present)
Updates ==
  { [privateKey |-> Txt("k2")],
    [privateKey |-> EmptyStr],
    [crossmintApiKey |-> Txt("a1"), rpcUrl |-> Txt("r2"), chainId |-> Num(5)],
    [privateKey |-> Txt("k1"), crossmintApiKey |-> EmptyStr] }

\* new ethers.Wallet(privateKey) accepts 32 bytes of hex, with or without 0x
ValidEvmKey(pk) == pk \in {Txt("k1"), Txt("k2")}
DeriveAddress(pk) == <<[k |-> "addr", of |-> pk[1].s]>>

\* viem's privateKeyToAccount wants the 0x-prefixed form
ValidViemKey(pk) == pk = Txt("k2")

\* GoatService.initializeTools: does it return ("ok") or throw ("failed")?
initializeTools(g, wp) ==
  IF g = "viem" /\ ~ValidViemKey(wp.privateKey) THEN "failed" ELSE "ok"

\* { ...walletProvider, ...updates }
Merge(wp, upd) ==
  [f \in DOMAIN wp \cup DOMAIN upd |-> IF f \in DOMAIN upd THEN upd[f] ELSE wp[f]]

Has(upd, f) == f \in DOMAIN upd
Field(upd, f) == IF Has(upd, f) THEN upd[f] ELSE Undefined

NoArg == [none |-> TRUE]
NoRes == Thrown("")
Idle ==
  [op |-> "idle", user |-> "", pc |-> "", ref |-> 0, arg |-> NoArg,
   addr |-> Undefined, r |-> NoRes, k1 |-> Undefined, init |-> "",
   exp |-> NoWP, clean |-> TRUE, views |-> {}]

\* what hasWallet and the map say about a user: "absent", "inactive", "active"
StateOf(u) ==
  IF u \notin Users \/ wallets[u] = 0 THEN "absent"
  ELSE IF heap[wallets[u]].isActive THEN "active" ELSE "inactive"

\* what one step did: the call it belongs to, whether the call returned in
\* this step and what (retB for boolean results, retWP for getWallet, with
\* NoWP for null), why getWallet returned null, the argument object as the
\* call left it, and the state of the user's record before the step.
Event(op, u, done, retB, retWP, why, arg, t) ==
  [op |-> op, user |-> u, done |-> done, retB |-> retB, retWP |-> retWP,
   why |-> why, arg |-> arg, exp |-> t.exp, clean |-> t.clean,
   init |-> t.init, pre |-> StateOf(u), views |-> t.views,
   hadApi |-> StateOf(u) # "absent"
                /\ Truthy(heap[wallets[u]].walletProvider.crossmintApiKey),
   hadChain |-> IF StateOf(u) = "absent" THEN Undefined
                ELSE heap[wallets[u]].walletProvider.chainId]
NoEvent ==
  [op |-> "none", user |-> "", done |-> FALSE, retB |-> FALSE, retWP |-> NoWP,
   why |-> "", arg |-> NoArg, exp |-> NoWP, clean |-> TRUE, init |-> "",
   pre |-> "absent", views |-> {}, hadApi |-> FALSE, hadChain |-> Undefined]

RegInit ==
  /\ goat \in Goats
  /\ now = 0
  /\ wallets = [u \in Users |-> 0]
  /\ heap = <<>>
  /\ tasks = [t \in Tasks |-> Idle]
  /\ reg = [u \in Users |-> NoWP]
  /\ ev = NoEvent

\* rateLimitMap.get(userId) === undefined
NoEntry == [none |-> TRUE]

NoGhost == [lim |-> 0, same |-> TRUE, adm |-> 0]
NoRate ==
  [op |-> "none", user |-> "", limit |-> 0, windowMs |-> 0, ret |-> FALSE,
   plain |-> FALSE, live |-> FALSE, swept |-> FALSE]

LimInit ==
  /\ rateLimitMap = [u \in Users |-> NoEntry]
  /\ noClean = [u \in Users |-> NoEntry]
  /\ rl = [u \in Users |-> NoGhost]
  /\ rev = NoRate

NoTemp == [none |-> TRUE]
NoCmd ==
  [name |-> "", user |-> "", pc |-> "idle", admitted |-> FALSE,
   trace |-> <<>>, reply |-> "", res |-> NoRes, entry |-> FALSE,
   wrote |-> FALSE]

\* the interactions that can be in handling at once
Inters == {"i1", "i2"}
NoHandler ==
  [name |-> "", user |-> "", pc |-> "idle", task |-> "", trace |-> <<>>,
   res |-> NoRes]

\* new DiscordBot(): the CommandManager gets a GoatService of its own
CmdInit ==
  /\ tempWalletData = [u \in Users |-> NoTemp]
  /\ tools = <<>>
  /\ cmd = NoCmd
  /\ handlers = [i \in Inters |-> NoHandler]

\* rawConfig.rateLimiting with neither variable set in the environment
EnvDefault == [windowMs |-> 60000, max |-> 10]

NoHist == [limit |-> 0, windowMs |-> 0, times |-> <<>>]

NoCheck == [fn |-> "none", arg |-> <<>>, type |-> "", ret |-> FALSE]

HarnessInit ==
  /\ blob = Undefined
  /\ orig = Undefined
  /\ mods = {}
  /\ made = {}
  /\ cev = [op |-> "none", arg |-> Undefined, res |-> Thrown(""),
            mods |-> {}, fresh |-> FALSE]

-----------------------------------------------------------------------------
(* Cipher harness: calls of encrypt and decrypt on chosen strings *)

MaxParts == 4       \* components of a string handed to decrypt

Plaintexts == {Txt("k1"), Txt("a1"), EmptyStr}
\* strings encrypt did not make: a key, '', undefined, and two components of
\* 32 hex characters each
RawStrings == {Txt("k1"), EmptyStr, Undefined, <<IvComp(0), IvComp(0)>>}

Call(op, arg, res, m, f) ==
  [op |-> op, arg |-> arg, res |-> res, mods |-> m, fresh |-> f]
NoCall == Call("none", Undefined, Thrown(""), {}, FALSE)

InitCipher ==
  /\ build \in Builds
  /\ ivCtr = 0
  /\ HarnessInit
  /\ RegInit
  /\ LimInit
  /\ CmdInit
  /\ pf = NoCheck
  /\ config = EnvDefault
  /\ hist = NoHist

\* blob = await securityManager.encrypt(p)
CEncrypt(p) ==
  /\ UNCHANGED <<rvars, ovars>>
  /\ ivCtr < MaxIv
  /\ LET r == encrypt(build, p, ivCtr + 1)
     IN /\ cev' = Call("encrypt", p, r, {}, r.ok /\ r.val \notin made)
        /\ blob' = r.val
        /\ orig' = p
        /\ mods' = {}
        /\ made' = IF r.ok THEN made \cup {r.val} ELSE made
  /\ ivCtr' = ivCtr + 1
  /\ UNCHANGED build

\* await securityManager.decrypt(blob)
CDecrypt ==
  /\ UNCHANGED <<rvars, ovars>>
  /\ \E r \in decrypt(build, blob) : cev' = Call("decrypt", blob, r, mods, FALSE)
  /\ UNCHANGED <<build, ivCtr, blob, orig, mods, made>>

\* one hex letter of ciphertext component i put in upper case
CUpper(i) ==
  /\ UNCHANGED <<rvars, ovars>>
  /\ i <= Len(blob) /\ blob[i].k = "ct" /\ blob[i].hex /\ ~blob[i].up
  /\ blob' = [blob EXCEPT ![i].up = TRUE]
  /\ mods' = mods \cup {"ct-hex"}
  /\ cev' = NoCall
  /\ UNCHANGED <<build, ivCtr, orig, made>>

\* one hex digit of the ciphertext component replaced by another, in cipher
\* block j
CTamper(i, j) ==
  /\ UNCHANGED <<rvars, ovars>>
  /\ i <= Len(blob) /\ blob[i].k = "ct" /\ blob[i].hex
  /\ j \in 1..Blocks(blob[i].p) /\ blob[i].tam = {}
  /\ blob' = [blob EXCEPT ![i].tam = {j}]
  /\ mods' = mods \cup {"ct-hex"}
  /\ cev' = NoCall
  /\ UNCHANGED <<build, ivCtr, orig, made>>

\* one character of component i replaced by a character that is no hex digit
CNonHex(i) ==
  /\ UNCHANGED <<rvars, ovars>>
  /\ i <= Len(blob) /\ blob[i].k \in {"iv", "ct"} /\ blob[i].hex
  /\ blob' = [blob EXCEPT ![i].hex = FALSE]
  /\ mods' = mods \cup {"non-hex"}
  /\ cev' = NoCall
  /\ UNCHANGED <<build, ivCtr, orig, made>>

\* blob + ':ff'
CAppend ==
  /\ UNCHANGED <<rvars, ovars>>
  /\ blob # Undefined /\ Len(blob) < MaxParts
  /\ blob' = blob \o Txt("ff")
  /\ mods' = mods \cup {"count"}
  /\ cev' = NoCall
  /\ UNCHANGED <<build, ivCtr, orig, made>>

\* blob cut at its last ':'
CDrop ==
  /\ UNCHANGED <<rvars, ovars>>
  /\ Len(blob) > 1
  /\ blob' = SubSeq(blob, 1, Len(blob) - 1)
  /\ mods' = mods \cup {"count"}
  /\ cev' = NoCall
  /\ UNCHANGED <<build, ivCtr, orig, made>>

\* a string that encrypt never made
CLoad(s) ==
  /\ UNCHANGED <<rvars, ovars>>
  /\ blob' = s
  /\ orig' = Undefined
  /\ mods' = {"raw"}
  /\ cev' = NoCall
  /\ UNCHANGED <<build, ivCtr, made>>

NextCipher ==
  \/ \E p \in Plaintexts : CEncrypt(p)
  \/ CDecrypt
  \/ \E i \in 1..MaxParts : CUpper(i)
  \/ \E i \in 1..MaxParts, j \in 1..5 : CTamper(i, j)
  \/ \E i \in 1..MaxParts : CNonHex(i)
  \/ CAppend
  \/ CDrop
  \/ \E s \in RawStrings : CLoad(s)

SpecCipher == InitCipher /\ [][NextCipher]_vars

-----------------------------------------------------------------------------
(* Wallet registry: operations.  An async method runs from its call to its *)
(* first await in one step and from one await to the next in one step; an  *)
(* awaited async call (encrypt, decrypt, initializeTools) runs its whole    *)
(* body when it is called, and the awaiting method sees the outcome when it *)
(* resumes.                                                                 *)

TaskOrder == <<"t1", "t2">>
IdleSlot(t) ==
  /\ tasks[t].op = "idle"
  /\ \A i, j \in 1..Len(TaskOrder) :
       (TaskOrder[j] = t /\ i < j) => tasks[TaskOrder[i]].op # "idle"

\* encrypt calls a suspended call will still make: none once an awaited
\* encrypt has thrown
PendingIv(k) ==
  IF ~k.r.ok THEN 0
  ELSE IF k.pc = "enc1" /\ Truthy(k.arg.crossmintApiKey) THEN 1
  ELSE IF k.pc = "uenc1" /\ Truthy(Field(k.arg, "crossmintApiKey")) THEN 1
  ELSE 0

RECURSIVE SumPending(_)
SumPending(S) ==
  IF S = {} THEN 0
  ELSE LET x == CHOOSE x \in S : TRUE
       IN PendingIv(tasks[x]) + SumPending(S \ {x})

Budget(need) == ivCtr + SumPending(Tasks) + need <= MaxIv
Count(b) == IF b THEN 1 ELSE 0

Free(ts, t) == [ts EXCEPT ![t] = Idle]

\* history: the calls in flight for user u (other than t) saw a write
Dirty(ts, u, t) ==
  [x \in Tasks |-> IF x # t /\ ts[x].user = u
                     THEN [ts[x] EXCEPT !.clean = FALSE] ELSE ts[x]]

\* an object that neither the map nor a suspended call can reach any more
Collected == [collected |-> TRUE]
Gc(w, ts, h) ==
  [i \in DOMAIN h |->
     IF (\E u \in Users : w[u] = i) \/ (\E t \in Tasks : ts[t].ref = i)
       THEN h[i] ELSE Collected]

\* what a getWallet(u) made alone returns when the map is w and the objects
\* are h (NoWP for null): the set of its possible results
SeqGet(w, h, u) ==
  IF w[u] = 0 \/ ~h[w[u]].isActive THEN {NoWP}
  ELSE LET wp == h[w[u]].walletProvider
           api == Truthy(wp.crossmintApiKey)
       IN { IF ~r.ok \/ ~a.ok THEN NoWP
            ELSE [wp EXCEPT !.privateKey = r.val,
                            !.crossmintApiKey = IF api THEN a.val ELSE Undefined] :
              r \in decrypt(build, wp.privateKey),
              a \in IF api THEN decrypt(build, wp.crossmintApiKey)
                           ELSE {Returned(Undefined)} }

\* history: every getWallet in flight collects what a getWallet made alone
\* would have returned at each moment since it was called
Observe(ts, w, h) ==
  [x \in Tasks |->
     IF ts[x].op = "get"
       THEN [ts[x] EXCEPT !.views = @ \cup SeqGet(w, h, ts[x].user)]
       ELSE ts[x]]

\* what a step leaves; t is the clock as the step last read it
SetAt(iv, w, h, ts, rg, e, t) ==
  /\ ivCtr' = iv
  /\ wallets' = w
  /\ heap' = Gc(w, ts, h)
  /\ tasks' = Observe(ts, w, h)
  /\ reg' = rg
  /\ ev' = e
  /\ now' = t
  /\ UNCHANGED <<build, goat, hvars>>

\* a step that reads the clock once at most
Set(iv, w, h, ts, rg, e) == SetAt(iv, w, h, ts, rg, e, now)

\* a set that files the record under every key
MapSetAll(m, u, id) == [x \in DOMAIN m |-> id]

\* this.wallets.set(userId, userWallet)
MapSet(m, u, id) == [m EXCEPT ![u] = id]

\* userWallet.isActive = false
Deactivate(h, id) == [h EXCEPT ![id].isActive = FALSE]

\* a call returns without having changed anything
ReturnOnly(t, op, u, retB, why, arg, k) ==
  Set(ivCtr, wallets, heap, Free(tasks, t), reg,
      Event(op, u, TRUE, retB, NoWP, why, arg, k))

\* a call suspends at an await (iv: the value of ivCtr it leaves)
Suspend(t, k, iv) ==
  Set(iv, wallets, heap, [tasks EXCEPT ![t] = k], reg,
      Event(k.op, k.user, FALSE, FALSE, NoWP, "", k.arg, k))

\* a store that keeps the API key of the record it replaces when the new
\* provider has none
StoreMerging(t, encPk, encApi) ==
  LET k == tasks[t]
      p == k.arg
      old == wallets[k.user]
      api == IF encApi = Undefined /\ old # 0
               THEN heap[old].walletProvider.crossmintApiKey ELSE encApi
      obj(t2) == [userId |-> k.user,
              walletProvider |-> [p EXCEPT !.privateKey = encPk,
                                           !.crossmintApiKey = api,
                                           !.address = k.addr],
              isActive |-> TRUE, createdAt |-> now, lastUsed |-> t2]
      k2 == [k EXCEPT !.pc = "init", !.r = NoRes, !.k1 = Undefined,
                      !.init = initializeTools(goat, [p EXCEPT !.address = k.addr])]
  IN \E t2 \in now..MaxTime :
       SetAt(ivCtr, MapSet(wallets, k.user, Len(heap) + 1), Append(heap, obj(t2)),
             [Dirty(tasks, k.user, t) EXCEPT ![t] = k2],
             [reg EXCEPT ![k.user] = p],
             Event("register", k.user, FALSE, FALSE, NoWP, "", p, k2), t2)

\* registerWallet, lines 375-400: complete the provider, create the record
\* (new Date() is read for createdAt and again for lastUsed, at t2), store
\* it, call initializeTools and await it
Store(t, encPk, encApi) ==
  LET k == tasks[t]
      p == k.arg
      obj(t2) == [userId |-> k.user,
              walletProvider |-> [p EXCEPT !.privateKey = encPk,
                                           !.crossmintApiKey = encApi,
                                           !.address = k.addr],
              isActive |-> TRUE, createdAt |-> now, lastUsed |-> t2]
      k2 == [k EXCEPT !.pc = "init", !.r = NoRes, !.k1 = Undefined,
                      !.init = initializeTools(goat, [p EXCEPT !.address = k.addr])]
  IN \E t2 \in now..MaxTime :
       SetAt(ivCtr, MapSet(wallets, k.user, Len(heap) + 1), Append(heap, obj(t2)),
             [Dirty(tasks, k.user, t) EXCEPT ![t] = k2],
             [reg EXCEPT ![k.user] = p],
             Event("register", k.user, FALSE, FALSE, NoWP, "", p, k2), t2)

\* a registerWallet that derives the address of every EVM wallet
RegisterCallDeriving(t, u, p) ==
  /\ IdleSlot(t)
  /\ LET derive == p.type = "evm"
         addr == IF derive THEN DeriveAddress(p.privateKey) ELSE p.address
         k == [Idle EXCEPT !.op = "register", !.user = u, !.pc = "enc1",
                           !.arg = p, !.addr = addr,
                           !.r = encrypt(build, p.privateKey, ivCtr + 1)]
     IN IF derive /\ ~ValidEvmKey(p.privateKey)
          THEN ReturnOnly(t, "register", u, FALSE, "", p, Idle)
          ELSE /\ Budget(1 + Count(Truthy(p.crossmintApiKey)))
               /\ Suspend(t, k, ivCtr + 1)

\* registerWallet, lines 359-370
RegisterCall(t, u, p) ==
  /\ IdleSlot(t)
  /\ LET derive == p.type = "evm" /\ Falsy(p.address)
         addr == IF derive THEN DeriveAddress(p.privateKey) ELSE p.address
         k == [Idle EXCEPT !.op = "register", !.user = u, !.pc = "enc1",
                           !.arg = p, !.addr = addr,
                           !.r = encrypt(build, p.privateKey, ivCtr + 1)]
     IN IF derive /\ ~ValidEvmKey(p.privateKey)
          THEN ReturnOnly(t, "register", u, FALSE, "", p, Idle)
          ELSE /\ Budget(1 + Count(Truthy(p.crossmintApiKey)))
               /\ Suspend(t, k, ivCtr + 1)

\* a registerWallet that reports failure when initializeTools threw
RegisterResumeStrict(t) ==
  LET k == tasks[t]
      p == k.arg
  IN /\ k.op = "register"
     /\ IF k.pc = "init"
          THEN ReturnOnly(t, "register", k.user, k.init = "ok", "", p, k)
        ELSE IF ~k.r.ok THEN ReturnOnly(t, "register", k.user, FALSE, "", p, k)
        ELSE IF k.pc = "enc1" /\ Truthy(p.crossmintApiKey)
          THEN Suspend(t, [k EXCEPT !.pc = "enc2", !.k1 = k.r.val,
                                    !.r = encrypt(build, p.crossmintApiKey, ivCtr + 1)],
                       ivCtr + 1)
        ELSE IF k.pc = "enc1" THEN Store(t, k.r.val, Undefined)
        ELSE Store(t, k.k1, k.r.val)

\* registerWallet, lines 370-412
RegisterResume(t) ==
  LET k == tasks[t]
      p == k.arg
  IN /\ k.op = "register"
     /\ IF k.pc = "init" THEN ReturnOnly(t, "register", k.user, TRUE, "", p, k)
        ELSE IF ~k.r.ok THEN ReturnOnly(t, "register", k.user, FALSE, "", p, k)
        ELSE IF k.pc = "enc1" /\ Truthy(p.crossmintApiKey)
          THEN Suspend(t, [k EXCEPT !.pc = "enc2", !.k1 = k.r.val,
                                    !.r = encrypt(build, p.crossmintApiKey, ivCtr + 1)],
                       ivCtr + 1)
        ELSE IF k.pc = "enc1" THEN Store(t, k.r.val, Undefined)
        ELSE Store(t, k.k1, k.r.val)

\* a getWallet that takes a retired record
GetCallAnyRecord(t, u) ==
  /\ IdleSlot(t)
  /\ LET ref == wallets[u]
         k0 == [Idle EXCEPT !.exp = reg[u], !.views = SeqGet(wallets, heap, u)]
     IN IF ref = 0
          THEN ReturnOnly(t, "get", u, FALSE, "absent", NoArg, k0)
          ELSE \E r \in decrypt(build, heap[ref].walletProvider.privateKey) :
                 Suspend(t, [k0 EXCEPT !.op = "get", !.user = u, !.pc = "dec1",
                                       !.ref = ref, !.r = r], ivCtr)

\* getWallet, lines 418-426
GetCall(t, u) ==
  /\ IdleSlot(t)
  /\ LET ref == wallets[u]
         k0 == [Idle EXCEPT !.exp = reg[u], !.views = SeqGet(wallets, heap, u)]
     IN IF ref = 0 \/ ~heap[ref].isActive
          THEN ReturnOnly(t, "get", u, FALSE,
                          IF ref = 0 THEN "absent" ELSE "inactive", NoArg, k0)
          ELSE \E r \in decrypt(build, heap[ref].walletProvider.privateKey) :
                 Suspend(t, [k0 EXCEPT !.op = "get", !.user = u, !.pc = "dec1",
                                       !.ref = ref, !.r = r], ivCtr)

\* getWallet, lines 426-442
GetResume(t) ==
  LET k == tasks[t]
      w == heap[k.ref]
  IN /\ k.op = "get"
     /\ IF ~k.r.ok THEN ReturnOnly(t, "get", k.user, FALSE, "crypto", NoArg, k)
        ELSE IF k.pc = "dec1" /\ Truthy(w.walletProvider.crossmintApiKey)
          THEN \E r \in decrypt(build, w.walletProvider.crossmintApiKey) :
                 Suspend(t, [k EXCEPT !.pc = "dec2", !.k1 = k.r.val, !.r = r], ivCtr)
        ELSE LET dk == IF k.pc = "dec1" THEN k.r.val ELSE k.k1
                 da == IF k.pc = "dec1" THEN Undefined ELSE k.r.val
                 ret == [w.walletProvider EXCEPT !.privateKey = dk,
                                                 !.crossmintApiKey = da]
             IN Set(ivCtr, wallets, [heap EXCEPT ![k.ref].lastUsed = now],
                    Free(tasks, t), reg,
                    Event("get", k.user, TRUE, TRUE, ret, "ok", NoArg, k))

\* a hasWallet that looks for the entry only
hasWalletAny(u) == wallets[u] # 0

\* hasWallet: userWallet?.isActive ?? false
hasWallet(u) == wallets[u] # 0 /\ heap[wallets[u]].isActive

HasWallet(u) ==
  /\ u \in Users
  /\ Set(ivCtr, wallets, heap, tasks, reg,
         Event("has", u, TRUE, hasWallet(u), NoWP, "", NoArg, Idle))

\* a removal that deletes the entry of the map
RemoveWalletDelete(u) ==
  LET ref == wallets[u]
  IN /\ u \in Users
     /\ Set(ivCtr, [wallets EXCEPT ![u] = 0], heap, Dirty(tasks, u, ""),
            [reg EXCEPT ![u] = NoWP],
            Event("remove", u, TRUE, ref # 0, NoWP, "", NoArg, Idle))

\* removeWallet
RemoveWallet(u) ==
  LET ref == wallets[u]
  IN /\ u \in Users
     /\ IF ref # 0
       THEN Set(ivCtr, wallets, Deactivate(heap, ref), Dirty(tasks, u, ""),
                [reg EXCEPT ![u] = NoWP],
                Event("remove", u, TRUE, TRUE, NoWP, "", NoArg, Idle))
       ELSE Set(ivCtr, wallets, heap, tasks, reg,
                Event("remove", u, TRUE, FALSE, NoWP, "", NoArg, Idle))

\* an updateWallet that refreshes lastUsed as well
MergeReturnTouching(t, k, upd) ==
  Set(ivCtr, wallets,
      [heap EXCEPT ![k.ref].walletProvider = Merge(@, upd),
                   ![k.ref].lastUsed = now],
      Free(Dirty(tasks, k.user, t), t),
      IF wallets[k.user] = k.ref THEN [reg EXCEPT ![k.user] = NoWP] ELSE reg,
      Event("update", k.user, TRUE, TRUE, NoWP, "", upd, k))

\* updateWallet, lines 489-495: merge the updates into the record held
MergeReturn(t, k, upd) ==
  Set(ivCtr, wallets, [heap EXCEPT ![k.ref].walletProvider = Merge(@, upd)],
      Free(Dirty(tasks, k.user, t), t),
      IF wallets[k.user] = k.ref THEN [reg EXCEPT ![k.user] = NoWP] ELSE reg,
      Event("update", k.user, TRUE, TRUE, NoWP, "", upd, k))

\* updateWallet, lines 485-495
UpdateApi(t, k, upd) ==
  IF Truthy(Field(upd, "crossmintApiKey"))
    THEN Suspend(t, [k EXCEPT !.pc = "uenc2", !.arg = upd,
                              !.r = encrypt(build, upd.crossmintApiKey, ivCtr + 1)],
                 ivCtr + 1)
    ELSE MergeReturn(t, k, upd)

\* an updateWallet that takes a retired record
UpdateCallAnyRecord(t, u, upd) ==
  /\ IdleSlot(t)
  /\ LET ref == wallets[u]
         k == [Idle EXCEPT !.op = "update", !.user = u, !.ref = ref, !.arg = upd]
     IN IF ref = 0
          THEN ReturnOnly(t, "update", u, FALSE, "", upd, Idle)
          ELSE /\ Budget(Count(Truthy(Field(upd, "privateKey")))
                         + Count(Truthy(Field(upd, "crossmintApiKey"))))
               /\ IF Truthy(Field(upd, "privateKey"))
                    THEN Suspend(t, [k EXCEPT !.pc = "uenc1",
                                       !.r = encrypt(build, upd.privateKey, ivCtr + 1)],
                                 ivCtr + 1)
                    ELSE UpdateApi(t, k, upd)

\* updateWallet, lines 474-483
UpdateCall(t, u, upd) ==
  /\ IdleSlot(t)
  /\ LET ref == wallets[u]
         k == [Idle EXCEPT !.op = "update", !.user = u, !.ref = ref, !.arg = upd]
     IN IF ref = 0 \/ ~heap[ref].isActive
          THEN ReturnOnly(t, "update", u, FALSE, "", upd, Idle)
          ELSE /\ Budget(Count(Truthy(Field(upd, "privateKey")))
                         + Count(Truthy(Field(upd, "crossmintApiKey"))))
               /\ IF Truthy(Field(upd, "privateKey"))
                    THEN Suspend(t, [k EXCEPT !.pc = "uenc1",
                                       !.r = encrypt(build, upd.privateKey, ivCtr + 1)],
                                 ivCtr + 1)
                    ELSE UpdateApi(t, k, upd)

\* updateWallet, lines 483-499
UpdateResume(t) ==
  LET k == tasks[t]
  IN /\ k.op = "update"
     /\ IF ~k.r.ok THEN ReturnOnly(t, "update", k.user, FALSE, "", k.arg, k)
        ELSE IF k.pc = "uenc1"
          THEN UpdateApi(t, k, [k.arg EXCEPT !.privateKey = k.r.val])
          ELSE MergeReturn(t, k, [k.arg EXCEPT !.crossmintApiKey = k.r.val])

\* statistics that count the active records only
getStatsActiveOnly ==
  [total |-> Cardinality({u \in Users : hasWallet(u)}),
   active |-> Cardinality({u \in Users : hasWallet(u)})]

\* getStats
getStats ==
  [total |-> Cardinality({u \in Users : wallets[u] # 0}),
   active |-> Cardinality({u \in Users : hasWallet(u)})]

\* time passes
Tick ==
  /\ now < MaxTime
  /\ now' = now + 1
  /\ ev' = [NoEvent EXCEPT !.op = "tick"]
  /\ UNCHANGED <<build, ivCtr, goat, wallets, heap, tasks, reg, hvars, ovars>>

Init ==
  /\ build \in Builds
  /\ ivCtr = 0
  /\ HarnessInit
  /\ RegInit
  /\ LimInit
  /\ CmdInit
  /\ pf = NoCheck
  /\ config = EnvDefault
  /\ hist = NoHist

\* the clock does not move during the step
Still == now' = now

\* a suspended call goes on
Resumes ==
  \/ \E t \in Tasks : RegisterResume(t)
  \/ \E t \in Tasks : GetResume(t)
  \/ \E t \in Tasks : UpdateResume(t)

Quiet == \A t \in Tasks : tasks[t].op = "idle"

\* calls made one after the other, each awaited before the next is made,
\* while the clock stands still
Next ==
  \/ \E t \in Tasks, u \in Users, p \in Providers : Quiet /\ RegisterCall(t, u, p) /\ UNCHANGED ovars
  \/ \E t \in Tasks : RegisterResume(t) /\ Still /\ UNCHANGED ovars
  \/ \E t \in Tasks, u \in Users : Quiet /\ GetCall(t, u) /\ UNCHANGED ovars
  \/ \E t \in Tasks : GetResume(t) /\ UNCHANGED ovars
  \/ \E t \in Tasks, u \in Users, upd \in Updates : Quiet /\ UpdateCall(t, u, upd) /\ UNCHANGED ovars
  \/ \E t \in Tasks : UpdateResume(t) /\ UNCHANGED ovars
  \/ \E u \in Users : Quiet /\ RemoveWallet(u) /\ UNCHANGED ovars
  \/ \E u \in Users : Quiet /\ HasWallet(u) /\ UNCHANGED ovars

Spec == Init /\ [][Next]_vars

\* calls for one user, made one after the other; the clock runs between
\* the calls, while they are suspended and between the clock reads of a step
ClockUsers == {"u1"}

NextClock ==
  \/ \E t \in Tasks, u \in ClockUsers, p \in Providers : Quiet /\ RegisterCall(t, u, p) /\ UNCHANGED ovars
  \/ \E t \in Tasks, u \in ClockUsers : Quiet /\ GetCall(t, u) /\ UNCHANGED ovars
  \/ \E t \in Tasks, u \in ClockUsers, upd \in Updates : Quiet /\ UpdateCall(t, u, upd) /\ UNCHANGED ovars
  \/ \E u \in ClockUsers : Quiet /\ RemoveWallet(u) /\ UNCHANGED ovars
  \/ \E u \in ClockUsers : Quiet /\ HasWallet(u) /\ UNCHANGED ovars
  \/ Resumes /\ UNCHANGED ovars
  \/ Tick

SpecClock == Init /\ [][NextClock]_vars

\* calls made for one user while others for that user are suspended at an
\* await: registrations whose keys both GoatService classes accept, updates
\* of the private key
ConcUsers == {"u1"}
ConcProviders == {p \in Providers : p.privateKey = Txt("k2") \/ p.type = "solana"}
ConcUpdates ==
  {upd \in Updates : Has(upd, "privateKey") /\ ~Has(upd, "crossmintApiKey")}
    \cup {[privateKey |-> Txt("k2"), rpcUrl |-> Txt("r2")]}

NextConc ==
  \/ \E t \in Tasks, u \in ConcUsers, p \in ConcProviders : RegisterCall(t, u, p) /\ UNCHANGED ovars
  \/ \E t \in Tasks, u \in ConcUsers : GetCall(t, u) /\ UNCHANGED ovars
  \/ \E t \in Tasks, u \in ConcUsers, upd \in ConcUpdates : UpdateCall(t, u, upd) /\ UNCHANGED ovars
  \/ \E u \in ConcUsers : RemoveWallet(u) /\ UNCHANGED ovars
  \/ \E u \in ConcUsers : HasWallet(u) /\ UNCHANGED ovars
  \/ Resumes /\ Still /\ UNCHANGED ovars

SpecConc == Init /\ [][NextConc]_vars

\* registrations with and without an address, made one after the other: the
\* register inputs and an EVM wallet with its address, an EVM wallet with an
\* empty address, a Solana wallet without address
AddrProviders ==
  Providers \cup
    { WP("evm", Txt("k1"), Txt("r1"), Undefined, Txt("ad")),
      WP("evm", Txt("k2"), Txt("r1"), Undefined, EmptyStr),
      WP("solana", Txt("k1"), Txt("r1"), Undefined, Undefined) }

NextAddr ==
  \/ \E t \in Tasks, u \in Users, p \in AddrProviders :
       Quiet /\ RegisterCall(t, u, p) /\ UNCHANGED ovars
  \/ \E t \in Tasks : RegisterResume(t) /\ Still /\ UNCHANGED ovars
  \/ \E u \in Users : Quiet /\ RemoveWallet(u) /\ UNCHANGED ovars

SpecAddr == Init /\ [][NextAddr]_vars

-----------------------------------------------------------------------------
(* Rate limiter: checkRateLimit and cleanupRateLimits are synchronous, so   *)
(* each call is one step.  Time is counted in the unit of Date.now().       *)

MaxLimit == 2       \* largest limit handed to checkRateLimit
MaxWindow == 1      \* largest windowMs handed to checkRateLimit
MaxNow == 3         \* clock ticks in one run of the rate limiter

Limits == 0..MaxLimit
Windows == 0..MaxWindow

\* !userLimit || now > userLimit.resetTime
NoLive(m, u, t) == m[u] = NoEntry \/ t > m[u].resetTime

\* a check that compares with > where the code has >=
checkRateLimitLax(m, u, limit, windowMs, t) ==
  IF NoLive(m, u, t)
    THEN [ret |-> TRUE,
          map |-> [m EXCEPT ![u] = [count |-> 1, resetTime |-> t + windowMs]]]
  ELSE IF m[u].count > limit THEN [ret |-> FALSE, map |-> m]
  ELSE [ret |-> TRUE, map |-> [m EXCEPT ![u].count = @ + 1]]

\* a check that counts the calls it rejects
checkRateLimitCounting(m, u, limit, windowMs, t) ==
  IF NoLive(m, u, t)
    THEN [ret |-> TRUE,
          map |-> [m EXCEPT ![u] = [count |-> 1, resetTime |-> t + windowMs]]]
  ELSE [ret |-> m[u].count < limit, map |-> [m EXCEPT ![u].count = @ + 1]]

\* a check that starts a new counter at 0
checkRateLimitFromZero(m, u, limit, windowMs, t) ==
  IF NoLive(m, u, t)
    THEN [ret |-> TRUE,
          map |-> [m EXCEPT ![u] = [count |-> 0, resetTime |-> t + windowMs]]]
  ELSE IF m[u].count >= limit THEN [ret |-> FALSE, map |-> m]
  ELSE [ret |-> TRUE, map |-> [m EXCEPT ![u].count = @ + 1]]

\* a check that starts the new counter under every key
checkRateLimitShared(m, u, limit, windowMs, t) ==
  IF NoLive(m, u, t)
    THEN [ret |-> TRUE,
          map |-> [w \in DOMAIN m |-> [count |-> 1, resetTime |-> t + windowMs]]]
  ELSE IF m[u].count >= limit THEN [ret |-> FALSE, map |-> m]
  ELSE [ret |-> TRUE, map |-> [m EXCEPT ![u].count = @ + 1]]

\* checkRateLimit: the value it returns and the map it leaves
checkRateLimit(m, u, limit, windowMs, t) ==
  IF NoLive(m, u, t)
    THEN [ret |-> TRUE,
          map |-> [m EXCEPT ![u] = [count |-> 1, resetTime |-> t + windowMs]]]
  ELSE IF m[u].count >= limit THEN [ret |-> FALSE, map |-> m]
  ELSE [ret |-> TRUE, map |-> [m EXCEPT ![u].count = @ + 1]]

\* a cleanup that deletes a counter in the last instant of its window
cleanupRateLimitsEager(m, t) ==
  [u \in DOMAIN m |->
     IF m[u] # NoEntry /\ t >= m[u].resetTime THEN NoEntry ELSE m[u]]

\* a cleanup that clears the map
cleanupRateLimitsAll(m, t) == [u \in DOMAIN m |-> NoEntry]

\* cleanupRateLimits: the map it leaves
cleanupRateLimits(m, t) ==
  [u \in DOMAIN m |->
     IF m[u] # NoEntry /\ t > m[u].resetTime THEN NoEntry ELSE m[u]]

\* history: admissions under the counter that is live for u
Ghost(g, m, u, limit, ret, t) ==
  IF NoLive(m, u, t) THEN [lim |-> limit, same |-> TRUE, adm |-> 1]
  ELSE [lim |-> g.lim, same |-> g.same /\ limit = g.lim,
        adm |-> g.adm + Count(ret)]

\* what a call of checkRateLimit(u, limit, windowMs) does to the limiter
Checked(u, limit, windowMs) ==
  LET r == checkRateLimit(rateLimitMap, u, limit, windowMs, now)
      q == checkRateLimit(noClean, u, limit, windowMs, now)
  IN /\ rateLimitMap' = r.map
     /\ noClean' = q.map
     /\ rl' = [rl EXCEPT ![u] = Ghost(@, rateLimitMap, u, limit, r.ret, now)]
     /\ rev' = [op |-> "check", user |-> u, limit |-> limit,
                windowMs |-> windowMs, ret |-> r.ret, plain |-> q.ret,
                live |-> ~NoLive(rateLimitMap, u, now),
                swept |-> rateLimitMap[u] = NoEntry /\ noClean[u] # NoEntry]

\* securityManager.checkRateLimit(u, limit, windowMs)
CheckRateLimit(u, limit, windowMs) ==
  /\ Checked(u, limit, windowMs)
  /\ UNCHANGED <<build, ivCtr, hvars, rvars, cvars, pf, config, hist>>

\* securityManager.cleanupRateLimits()
CleanupRateLimits ==
  /\ rateLimitMap' = cleanupRateLimits(rateLimitMap, now)
  /\ rev' = [NoRate EXCEPT !.op = "cleanup"]
  /\ UNCHANGED <<build, ivCtr, hvars, rvars, noClean, rl, cvars, pf, config, hist>>

\* Date.now() moves on
RateTick ==
  /\ now < MaxNow
  /\ now' = now + 1
  /\ rev' = [NoRate EXCEPT !.op = "tick"]
  /\ UNCHANGED <<build, ivCtr, hvars, goat, wallets, heap, tasks, reg, ev,
                 rateLimitMap, noClean, rl, cvars, pf, config, hist>>

NextRate ==
  \/ \E u \in Users, limit \in Limits, windowMs \in Windows :
       CheckRateLimit(u, limit, windowMs)
  \/ CleanupRateLimits
  \/ RateTick

\* both SecurityManager classes hold the same rate limiter, and it reads
\* neither the cipher nor the registry
InitRate == Init /\ build = "cbc" /\ goat = "stub"

SpecRate == InitRate /\ [][NextRate]_vars

\* one identity whose calls all name one limit of at least 1 and one window
BurstUser == "u1"

InitBurst ==
  /\ build = "cbc"
  /\ ivCtr = 0
  /\ HarnessInit
  /\ RegInit /\ goat = "stub"
  /\ LimInit
  /\ CmdInit
  /\ pf = NoCheck
  /\ config = EnvDefault
  /\ hist \in {[limit |-> l, windowMs |-> w, times |-> <<>>] :
                 l \in Limits \ {0}, w \in Windows}

\* securityManager.checkRateLimit(BurstUser, limit, windowMs); history: the
\* times of the calls admitted
BurstCheck ==
  LET r == checkRateLimit(rateLimitMap, BurstUser, hist.limit, hist.windowMs, now)
  IN /\ Checked(BurstUser, hist.limit, hist.windowMs)
     /\ hist' = [hist EXCEPT !.times = IF r.ret THEN Append(@, now) ELSE @]
     /\ UNCHANGED <<build, ivCtr, hvars, rvars, cvars, pf, config>>

NextBurst ==
  \/ BurstCheck
  \/ CleanupRateLimits
  \/ RateTick

SpecBurst == InitBurst /\ [][NextBurst]_vars

-----------------------------------------------------------------------------
(* Command layer (CommandManager of the viem build, DiscordBot).  The       *)
(* listener starts handleCommand for every interaction; a handler runs up   *)
(* to its first await in one step and from one await to the next in one     *)
(* step, and other interactions are handled while it is suspended.  The     *)
(* CommandManager holds the SecurityManager, the WalletManager and the      *)
(* GoatService the DiscordBot constructor made; the WalletManager made a    *)
(* SecurityManager and a GoatService of its own, which registerWallet       *)
(* initializes.  Tool and command option names are sequences of characters. *)

DefaultLimit == 10          \* checkRateLimit: limit = 10
DefaultWindowMs == 60000    \* checkRateLimit: windowMs = 60000

\* the names in this.commands, and a name that is not registered
Commands ==
  {"setup-wallet", "wallet-status", "swap", "buy-amazon", "help", "balance",
   "set-private-key", "set-rpc-url", "set-crossmint-key", "send-eth"}
CommandNames == Commands \cup {"nope"}

\* option values a user sends
CmdKeys == {Txt("k2"), Txt("zz")}
CmdUrls == {Txt("r1")}
CmdApiKeys == {Txt("a1")}

\* this.tempWalletData.get(userId) || {}
EmptyTemp ==
  [privateKey |-> Undefined, rpcUrl |-> Undefined, crossmintApiKey |-> Undefined]
Existing(u) == IF tempWalletData[u] = NoTemp THEN EmptyTemp ELSE tempWalletData[u]

\* a dispatch that never looks at the rate limiter's answer
DispatchUnchecked(ret, name) ==
  IF name \in Commands THEN name ELSE "unknown"

\* handleCommand: what runs for an interaction whose checkRateLimit
\* returned ret
Dispatch(ret, name) ==
  IF ~ret THEN "rate-limited"
  ELSE IF name \in Commands THEN name ELSE "unknown"

\* String.prototype.includes
Includes(str, part) ==
  \E i \in 0..(Len(str) - Len(part)) : SubSeq(str, i + 1, i + Len(part)) = part

\* the cased letters of ASCII and Latin-1, upper case and lower case
UpperCase ==
  <<"A", "B", "C", "D", "E", "F", "G", "H", "I", "J", "K", "L", "M", "N",
    "O", "P", "Q", "R", "S", "T", "U", "V", "W", "X", "Y", "Z", "À", "Á",
    "Â", "Ã", "Ä", "Å", "Æ", "Ç", "È", "É", "Ê", "Ë", "Ì", "Í", "Î", "Ï",
    "Ð", "Ñ", "Ò", "Ó", "Ô", "Õ", "Ö", "Ø", "Ù", "Ú", "Û", "Ü", "Ý", "Þ">>
LowerCase ==
  <<"a", "b", "c", "d", "e", "f", "g", "h", "i", "j", "k", "l", "m", "n",
    "o", "p", "q", "r", "s", "t", "u", "v", "w", "x", "y", "z", "à", "á",
    "â", "ã", "ä", "å", "æ", "ç", "è", "é", "ê", "ë", "ì", "í", "î", "ï",
    "ð", "ñ", "ò", "ó", "ô", "õ", "ö", "ø", "ù", "ú", "û", "ü", "ý", "þ">>

\* String.prototype.toLowerCase, for strings of ASCII and Latin-1 characters
toLowerCase(str) ==
  [i \in 1..Len(str) |->
     IF \E j \in 1..Len(UpperCase) : UpperCase[j] = str[i]
       THEN LowerCase[CHOOSE j \in 1..Len(UpperCase) : UpperCase[j] = str[i]]
       ELSE str[i]]

\* str.split('_')[0]
SplitFirst(str) ==
  LET at == {i \in 1..Len(str) : str[i] = "_"}
  IN IF at = {} THEN str
     ELSE SubSeq(str, 1, (CHOOSE i \in at : \A j \in at : i <= j) - 1)

\* Array.prototype.find / filter(...)[0]: the first index of a set of them
First(found) == CHOOSE i \in found : \A j \in found : i <= j

GetBalance == <<"g", "e", "t", "B", "a", "l", "a", "n", "c", "e">>
Swap == <<"s", "w", "a", "p">>
Uniswap == <<"u", "n", "i", "s", "w", "a", "p">>

\* GoatService.executeTransaction, lines 257-263: the index of the tool that
\* is run for toolName, 0 when there is none
ToolFor(tl, toolName) ==
  LET named == {i \in 1..Len(tl) :
                  tl[i].name = toolName \/ Includes(tl[i].name, toolName)}
      similar == {i \in 1..Len(tl) :
                    Includes(toLowerCase(tl[i].name),
                             SplitFirst(toLowerCase(toolName)))}
  IN IF named # {} THEN First(named)
     ELSE IF similar # {} THEN First(similar)
     ELSE 0

\* GoatService.executeTransaction(toolName, parameters) on the tools tl.  A
\* tool is [name, execute], execute being what its execute(parameters)
\* gives: the value it resolves with or the error it throws.
executeTransaction(tl, toolName) ==
  IF Len(tl) = 0
    THEN Thrown("No GOAT tools initialized. Please set up your wallet first.")
  ELSE IF ToolFor(tl, toolName) # 0 THEN tl[ToolFor(tl, toolName)].execute
  ELSE Thrown([msg |-> "Tool not found", tool |-> toolName,
               available |-> [i \in 1..Len(tl) |-> tl[i].name]])

\* GoatService.getAvailableTools
getAvailableTools(tl) == [i \in 1..Len(tl) |-> [name |-> tl[i].name]]

\* no interaction is suspended in slot i, and none in a later slot while an
\* earlier one is free
InterOrder == <<"i1", "i2">>
IdleInter(i) ==
  /\ handlers[i].pc = "idle"
  /\ \A a, b \in 1..Len(InterOrder) :
       (InterOrder[b] = i /\ a < b) => handlers[InterOrder[a]].pc # "idle"

\* every interaction has been answered and no WalletManager call is in flight
Calm == Quiet /\ \A i \in Inters : handlers[i].pc = "idle"

\* history: the interaction a step belongs to, what it has called in order,
\* the message the step sent, and where the handler is after the step
Handled(name, u, pc, adm, trace, reply, res) ==
  [name |-> name, user |-> u, pc |-> pc, admitted |-> adm, trace |-> trace,
   reply |-> reply, res |-> res, entry |-> TRUE,
   wrote |-> tempWalletData'[u] # tempWalletData[u]]

\* history: a step of a handler that was suspended
Resumed(h, pc, trace, reply, res) ==
  [name |-> h.name, user |-> h.user, pc |-> pc, admitted |-> TRUE,
   trace |-> trace, reply |-> reply, res |-> res, entry |-> FALSE,
   wrote |-> tempWalletData'[h.user] # tempWalletData[h.user]]

\* a handler suspended at an await: its interaction, where it waits, the
\* WalletManager call it waits for, what it has called, what it was given
Waiting(name, u, pc, t, trace, res) ==
  [name |-> name, user |-> u, pc |-> pc, task |-> t, trace |-> trace,
   res |-> res]

\* this.securityManager.checkRateLimit(user.id)
Admitted(u) ==
  checkRateLimit(rateLimitMap, u, DefaultLimit, DefaultWindowMs, now).ret

\* handleCommand up to the dispatch: the one call of checkRateLimit
Enter(u, name, run) ==
  /\ Checked(u, DefaultLimit, DefaultWindowMs)
  /\ run = Dispatch(Admitted(u), name)
  /\ UNCHANGED <<tools, pf, config, hist>>

\* a handler that sends its one reply and calls nothing that changes state
Reply(u, name, trace, reply) ==
  /\ tempWalletData' = tempWalletData
  /\ cmd' = Handled(name, u, "done", Admitted(u), trace, reply, NoRes)
  /\ UNCHANGED <<build, ivCtr, hvars, rvars, handlers>>

\* a handler that sends a first reply and awaits it
ReplyAndWait(i, u, name, trace, reply) ==
  /\ IdleInter(i)
  /\ tempWalletData' = tempWalletData
  /\ cmd' = Handled(name, u, "replied", Admitted(u), trace, reply, NoRes)
  /\ handlers' = [handlers EXCEPT ![i] = Waiting(name, u, "replied", "", trace, NoRes)]
  /\ UNCHANGED <<build, ivCtr, hvars, rvars>>

\* a suspended handler goes on to its next await (h2) or to its end
Continue(i, h2, reply) ==
  /\ cmd' = Resumed(handlers[i], IF h2 = NoHandler THEN "done" ELSE h2.pc,
                    IF h2 = NoHandler THEN handlers[i].trace ELSE h2.trace,
                    reply, IF h2 = NoHandler THEN handlers[i].res ELSE h2.res)
  /\ handlers' = [handlers EXCEPT ![i] = h2]
  /\ UNCHANGED <<build, ivCtr, hvars, rvars, lvars, tools, pf, config, hist>>

\* handleCommand, lines 541-547: the rate limit is exceeded
RateLimited(u, name) ==
  /\ Enter(u, name, "rate-limited")
  /\ Reply(u, name, <<"checkRateLimit">>, "rate-limited")

\* handleCommand, lines 549-556: no such command
UnknownCommand(u, name) ==
  /\ Enter(u, name, "unknown")
  /\ Reply(u, name, <<"checkRateLimit">>, "unknown")

\* handleSetupWallet
HandleSetupWallet(u) ==
  /\ Enter(u, "setup-wallet", "setup-wallet")
  /\ Reply(u, "setup-wallet", <<"checkRateLimit", "execute">>, "setup-wallet")

\* handleHelp
HandleHelp(u) ==
  /\ Enter(u, "help", "help")
  /\ Reply(u, "help", <<"checkRateLimit", "execute">>, "help")

\* handleSetPrivateKey
HandleSetPrivateKey(u, key) ==
  /\ Enter(u, "set-private-key", "set-private-key")
  /\ tempWalletData' =
       [tempWalletData EXCEPT ![u] = [Existing(u) EXCEPT !.privateKey = key]]
  /\ cmd' = Handled("set-private-key", u, "done", Admitted(u),
                    <<"checkRateLimit", "execute">>, "key-saved", NoRes)
  /\ UNCHANGED <<build, ivCtr, hvars, rvars, handlers>>

\* handleSetRpcUrl, lines 607-624, with createWalletFromTempData up to its
\* await of registerWallet
HandleSetRpcUrl(i, t, u, url) ==
  LET existing == Existing(u)
      td == [existing EXCEPT !.rpcUrl = url]
      called == <<"checkRateLimit", "execute", "registerWallet">>
  IN /\ Enter(u, "set-rpc-url", "set-rpc-url")
     /\ tempWalletData' = [tempWalletData EXCEPT ![u] = td]
     /\ IF Falsy(existing.privateKey)
          THEN /\ cmd' = Handled("set-rpc-url", u, "done", Admitted(u),
                                 <<"checkRateLimit", "execute">>, "url-saved", NoRes)
               /\ UNCHANGED <<build, ivCtr, hvars, rvars, handlers>>
        ELSE IF Falsy(td.rpcUrl)
          THEN /\ IdleInter(i)
               /\ cmd' = Handled("set-rpc-url", u, "created", Admitted(u),
                                 <<"checkRateLimit", "execute">>, "", NoRes)
               /\ handlers' = [handlers EXCEPT ![i] =
                    Waiting("set-rpc-url", u, "created", "",
                            <<"checkRateLimit", "execute">>, NoRes)]
               /\ UNCHANGED <<build, ivCtr, hvars, rvars>>
        ELSE /\ IdleInter(i)
             /\ RegisterCall(t, u, WP("evm", td.privateKey, td.rpcUrl,
                                      td.crossmintApiKey, Undefined))
             /\ cmd' = Handled("set-rpc-url", u, "register", Admitted(u),
                               called, "", NoRes)
             /\ handlers' = [handlers EXCEPT ![i] =
                  IF ev'.done
                    THEN Waiting("set-rpc-url", u, "registered", "", called,
                                 Returned(ev'.retB))
                    ELSE Waiting("set-rpc-url", u, "register", t, called, NoRes)]

\* createWalletFromTempData, lines 682-685, after registerWallet returned;
\* then handleSetRpcUrl, lines 626-629, after createWalletFromTempData
\* returned
SetRpcUrlResume(i) ==
  LET h == handlers[i]
  IN /\ h.name = "set-rpc-url"
     /\ \/ /\ h.pc = "registered"
           /\ tempWalletData' = [tempWalletData EXCEPT ![h.user] = NoTemp]
           /\ Continue(i, [h EXCEPT !.pc = "created"], "")
        \/ /\ h.pc = "created"
           /\ tempWalletData' = tempWalletData
           /\ Continue(i, NoHandler, "wallet-ready")

\* handleSetCrossmintKey up to the await of updateWallet
HandleSetCrossmintKey(i, t, u, apiKey) ==
  LET called == <<"checkRateLimit", "execute", "hasWallet", "updateWallet">>
  IN /\ Enter(u, "set-crossmint-key", "set-crossmint-key")
     /\ tempWalletData' =
          [tempWalletData EXCEPT ![u] = [Existing(u) EXCEPT !.crossmintApiKey = apiKey]]
     /\ IF hasWallet(u)
          THEN /\ IdleInter(i)
               /\ UpdateCall(t, u, [crossmintApiKey |-> apiKey])
               /\ cmd' = Handled("set-crossmint-key", u, "update", Admitted(u),
                                 called, "", NoRes)
               /\ handlers' = [handlers EXCEPT ![i] =
                    IF ev'.done
                      THEN Waiting("set-crossmint-key", u, "updated", "", called,
                                   Returned(ev'.retB))
                      ELSE Waiting("set-crossmint-key", u, "update", t, called,
                                   NoRes)]
          ELSE /\ cmd' = Handled("set-crossmint-key", u, "done", Admitted(u),
                                 <<"checkRateLimit", "execute", "hasWallet">>,
                                 "api-key-saved", NoRes)
               /\ UNCHANGED <<build, ivCtr, hvars, rvars, handlers>>

\* handleSetCrossmintKey, lines 657-660, after updateWallet returned
SetCrossmintKeyResume(i) ==
  /\ handlers[i].name = "set-crossmint-key"
  /\ handlers[i].pc = "updated"
  /\ tempWalletData' = tempWalletData
  /\ Continue(i, NoHandler, "api-key-saved")

\* the WalletManager call a handler awaits has returned in this step
Deliver(t) ==
  handlers' =
    [i \in Inters |->
       IF handlers[i].task = t /\ ev'.done
         THEN [handlers[i] EXCEPT
                 !.pc = IF @ = "register" THEN "registered" ELSE "updated",
                 !.task = "", !.res = Returned(ev'.retB)]
         ELSE handlers[i]]

\* handleWalletStatus
HandleWalletStatus(u) ==
  /\ Enter(u, "wallet-status", "wallet-status")
  /\ Reply(u, "wallet-status", <<"checkRateLimit", "execute", "hasWallet">>,
           IF hasWallet(u) THEN "connected" ELSE "no-wallet")

\* a handler that asks hasWallet first: without a wallet it answers and
\* ends, with one it sends a first message and awaits it
NeedsWallet(i, u, name, first) ==
  /\ Enter(u, name, name)
  /\ IF hasWallet(u)
       THEN ReplyAndWait(i, u, name,
                         <<"checkRateLimit", "execute", "hasWallet">>, first)
       ELSE Reply(u, name, <<"checkRateLimit", "execute", "hasWallet">>,
                  "no-wallet")

\* handleBalance, lines 867-881
HandleBalance(i, u) == NeedsWallet(i, u, "balance", "checking-balance")

\* handleBalance, lines 883-904: executeTransaction is called and awaited;
\* then the balance or the failure is sent
BalanceResume(i) ==
  LET h == handlers[i]
  IN /\ h.name = "balance"
     /\ tempWalletData' = tempWalletData
     /\ \/ /\ h.pc = "replied"
           /\ Continue(i, [h EXCEPT !.pc = "executed",
                                    !.trace = Append(@, "executeTransaction"),
                                    !.res = executeTransaction(tools, GetBalance)],
                       "")
        \/ /\ h.pc = "executed"
           /\ Continue(i, NoHandler,
                       IF h.res.ok THEN "balance" ELSE "balance-failed")

\* t.name.toLowerCase().includes('swap') || ...includes('uniswap')
IsSwapTool(tool) ==
  \/ Includes(toLowerCase(tool.name), Swap)
  \/ Includes(toLowerCase(tool.name), Uniswap)

\* handleSwap, lines 712-730
HandleSwap(i, u) == NeedsWallet(i, u, "swap", "swap-quote")

\* handleSwap, lines 732-782: the tools are listed and a swap tool, when
\* there is one, is run and awaited; then the embed or the failure is sent
SwapResume(i) ==
  LET h == handlers[i]
      listed == getAvailableTools(tools)
      found == {j \in 1..Len(listed) : IsSwapTool(listed[j])}
  IN /\ h.name = "swap"
     /\ tempWalletData' = tempWalletData
     /\ \/ /\ h.pc = "replied" /\ found = {}
           /\ cmd' = Resumed(h, "done", Append(h.trace, "getAvailableTools"),
                             "swap-ready", NoRes)
           /\ handlers' = [handlers EXCEPT ![i] = NoHandler]
           /\ UNCHANGED <<build, ivCtr, hvars, rvars, lvars, tools, pf, config, hist>>
        \/ /\ h.pc = "replied" /\ found # {}
           /\ Continue(i, [h EXCEPT
                             !.pc = "executed",
                             !.trace = @ \o <<"getAvailableTools", "executeTransaction">>,
                             !.res = executeTransaction(tools, listed[First(found)].name)],
                       "")
        \/ /\ h.pc = "executed"
           /\ Continue(i, NoHandler,
                       IF h.res.ok THEN "swap-ready" ELSE "swap-failed")

\* the second half of a handler that lists the tools and runs none
ListingResume(i, name, ready) ==
  LET h == handlers[i]
  IN /\ h.name = name /\ h.pc = "replied"
     /\ tempWalletData' = tempWalletData
     /\ cmd' = Resumed(h, "done", Append(h.trace, "getAvailableTools"), ready, NoRes)
     /\ handlers' = [handlers EXCEPT ![i] = NoHandler]
     /\ UNCHANGED <<build, ivCtr, hvars, rvars, lvars, tools, pf, config, hist>>

\* handleBuyAmazon, lines 785-803
HandleBuyAmazon(i, u) == NeedsWallet(i, u, "buy-amazon", "searching")

\* handleBuyAmazon, lines 805-836
BuyAmazonResume(i) == ListingResume(i, "buy-amazon", "commerce-ready")

\* handleSendETH, lines 907-925
HandleSendETH(i, u) == NeedsWallet(i, u, "send-eth", "preparing")

\* handleSendETH, lines 927-971
SendETHResume(i) == ListingResume(i, "send-eth", "send-ready")

\* what the registry steps of the command layer leave alone
CmdFrame == UNCHANGED <<lvars, tempWalletData, tools, cmd, pf, config, hist>>

\* the handlers go on, and so do the WalletManager calls they await
CmdResumes ==
  \/ \E t \in Tasks : RegisterResume(t) /\ Still /\ Deliver(t) /\ CmdFrame
  \/ \E t \in Tasks : UpdateResume(t) /\ Deliver(t) /\ CmdFrame
  \/ \E i \in Inters : SetRpcUrlResume(i)
  \/ \E i \in Inters : SetCrossmintKeyResume(i)
  \/ \E i \in Inters : BalanceResume(i)
  \/ \E i \in Inters : SwapResume(i)
  \/ \E i \in Inters : BuyAmazonResume(i)
  \/ \E i \in Inters : SendETHResume(i)

\* client.on('interactionCreate'): the chat input commands of one user, each
\* sent when the one before it has been answered
CmdUsers == {"u1"}

NextCmd ==
  \/ \E u \in CmdUsers, name \in CommandNames : Calm /\ RateLimited(u, name)
  \/ \E u \in CmdUsers, name \in CommandNames : Calm /\ UnknownCommand(u, name)
  \/ \E u \in CmdUsers : Calm /\ HandleSetupWallet(u)
  \/ \E u \in CmdUsers : Calm /\ HandleHelp(u)
  \/ \E u \in CmdUsers, key \in CmdKeys : Calm /\ HandleSetPrivateKey(u, key)
  \/ \E i \in Inters, t \in Tasks, u \in CmdUsers, url \in CmdUrls :
       Calm /\ HandleSetRpcUrl(i, t, u, url)
  \/ \E i \in Inters, t \in Tasks, u \in CmdUsers, apiKey \in CmdApiKeys :
       Calm /\ HandleSetCrossmintKey(i, t, u, apiKey)
  \/ \E u \in CmdUsers : Calm /\ HandleWalletStatus(u)
  \/ \E i \in Inters, u \in CmdUsers : Calm /\ HandleBalance(i, u)
  \/ \E i \in Inters, u \in CmdUsers : Calm /\ HandleSwap(i, u)
  \/ \E i \in Inters, u \in CmdUsers : Calm /\ HandleBuyAmazon(i, u)
  \/ \E i \in Inters, u \in CmdUsers : Calm /\ HandleSendETH(i, u)
  \/ CmdResumes

SpecCmd == Init /\ [][NextCmd]_vars

MaxCmds == 4        \* interactions in one run of overlapping commands

\* the user has sent fewer than MaxCmds interactions in the window
More(u) ==
  IF rateLimitMap[u] = NoEntry THEN TRUE ELSE rateLimitMap[u].count < MaxCmds

\* interactions that arrive at any time, also while the handlers of earlier
\* ones are suspended
NextCmdConc ==
  \/ \E u \in CmdUsers, name \in CommandNames : More(u) /\ UnknownCommand(u, name)
  \/ \E u \in CmdUsers : More(u) /\ HandleSetupWallet(u)
  \/ \E u \in CmdUsers : More(u) /\ HandleHelp(u)
  \/ \E u \in CmdUsers, key \in CmdKeys : More(u) /\ HandleSetPrivateKey(u, key)
  \/ \E i \in Inters, t \in Tasks, u \in CmdUsers, url \in CmdUrls :
       More(u) /\ HandleSetRpcUrl(i, t, u, url)
  \/ \E i \in Inters, t \in Tasks, u \in CmdUsers, apiKey \in CmdApiKeys :
       More(u) /\ HandleSetCrossmintKey(i, t, u, apiKey)
  \/ \E u \in CmdUsers : More(u) /\ HandleWalletStatus(u)
  \/ \E i \in Inters, u \in CmdUsers : More(u) /\ HandleBalance(i, u)
  \/ \E i \in Inters, u \in CmdUsers : More(u) /\ HandleSwap(i, u)
  \/ \E i \in Inters, u \in CmdUsers : More(u) /\ HandleBuyAmazon(i, u)
  \/ \E i \in Inters, u \in CmdUsers : More(u) /\ HandleSendETH(i, u)
  \/ CmdResumes

SpecCmdConc == Init /\ [][NextCmdConc]_vars

\* config.rateLimiting with RATE_LIMIT_MAX unset and with RATE_LIMIT_MAX=3
Configs == {EnvDefault, [windowMs |-> 60000, max |-> 3]}

\* the bot started under either environment
InitEnv ==
  /\ build \in Builds
  /\ ivCtr = 0
  /\ HarnessInit
  /\ RegInit
  /\ LimInit
  /\ CmdInit
  /\ pf = NoCheck
  /\ config \in Configs
  /\ hist = NoHist

SpecCmdEnv == InitEnv /\ [][NextCmd]_vars

-----------------------------------------------------------------------------
(* Validators: pure functions of character strings (sequences of            *)
(* one-character strings; '' and undefined are both the empty sequence,     *)
(* which the validators treat alike)                                        *)

Rep(c, n) == [i \in 1..n |-> c]

\* [0-9a-fA-F]
HexChars ==
  {"0", "1", "2", "3", "4", "5", "6", "7", "8", "9", "a", "b", "c", "d", "e",
   "f", "A", "B", "C", "D", "E", "F"}

\* [1-9A-HJ-NP-Za-km-z]
Base58Chars ==
  {"1", "2", "3", "4", "5", "6", "7", "8", "9", "A", "B", "C", "D", "E", "F",
   "G", "H", "J", "K", "L", "M", "N", "P", "Q", "R", "S", "T", "U", "V", "W",
   "X", "Y", "Z", "a", "b", "c", "d", "e", "f", "g", "h", "i", "j", "k", "m",
   "n", "o", "p", "q", "r", "s", "t", "u", "v", "w", "x", "y", "z"}

AllIn(str, chars) == \A i \in 1..Len(str) : str[i] \in chars

\* str.replace('0x', ''): the first occurrence goes, wherever it is
Replace0x(str) ==
  LET at == {i \in 1..(Len(str) - 1) : str[i] = "0" /\ str[i + 1] = "x"}
  IN IF at = {} THEN str
     ELSE LET i == CHOOSE i \in at : \A j \in at : i <= j
          IN SubSeq(str, 1, i - 1) \o SubSeq(str, i + 2, Len(str))

EvmKeyLen == 64          \* /^[0-9a-fA-F]{64}$/
SolanaKeyMin == 32       \* provider.privateKey.length >= 32
EvmAddrLen == 40         \* /^0x[a-fA-F0-9]{40}$/
SolanaAddrMin == 32      \* /^[1-9A-HJ-NP-Za-km-z]{32,44}$/
SolanaAddrMax == 44

\* validateEvmWallet
validateEvmWallet(provider) ==
  LET key == Replace0x(provider.privateKey)
  IN Len(key) = EvmKeyLen /\ AllIn(key, HexChars)

\* validateSolanaWallet
validateSolanaWallet(provider) == Len(provider.privateKey) >= SolanaKeyMin

\* validateWalletProvider
validateWalletProvider(provider) ==
  IF provider.type = "" \/ provider.privateKey = <<>> \/ provider.rpcUrl = <<>>
    THEN FALSE
  ELSE IF provider.type = "evm" THEN validateEvmWallet(provider)
  ELSE IF provider.type = "solana" THEN validateSolanaWallet(provider)
  ELSE FALSE

\* an address check that accepts 0x followed by 40 characters of any kind
validateWalletAddressAnyChar(address, type) ==
  IF type = "evm"
    THEN /\ Len(address) = 2 + EvmAddrLen
         /\ address[1] = "0" /\ address[2] = "x"
  ELSE IF type = "solana"
    THEN /\ Len(address) >= SolanaAddrMin /\ Len(address) <= SolanaAddrMax
         /\ AllIn(address, Base58Chars)
  ELSE FALSE

\* SecurityManager.validateWalletAddress
validateWalletAddress(address, type) ==
  IF type = "evm"
    THEN /\ Len(address) = 2 + EvmAddrLen
         /\ address[1] = "0" /\ address[2] = "x"
         /\ AllIn(SubSeq(address, 3, Len(address)), HexChars)
  ELSE IF type = "solana"
    THEN /\ Len(address) >= SolanaAddrMin /\ Len(address) <= SolanaAddrMax
         /\ AllIn(address, Base58Chars)
  ELSE FALSE

\* inputs: types, keys, RPC URLs and addresses around every rule
ValTypes == {"evm", "solana", "bitcoin", ""}
ValKeys ==
  { <<>>, Rep("a", 64), Rep("F", 64), Rep("a", 63), Rep("a", 65),
    Rep("g", 64), <<"0", "x">> \o Rep("a", 64), <<"0", "x">> \o Rep("a", 63),
    <<"0", "X">> \o Rep("a", 64), <<"0", "x", "0", "x">> \o Rep("a", 64),
    Rep("a", 32) \o <<"0", "x">> \o Rep("a", 32),
    Rep("a", 64) \o <<"0", "x">>, Rep("Z", 32), Rep("Z", 31) }
ValUrls == {<<>>, <<"r">>}
ValAddresses ==
  { <<>>, <<"0", "x">> \o Rep("a", 40), <<"0", "x">> \o Rep("a", 39),
    <<"0", "x">> \o Rep("a", 41), <<"0", "x">> \o Rep("F", 40),
    <<"0", "x">> \o Rep("g", 40), <<"0", "X">> \o Rep("a", 40),
    Rep("a", 42), <<"a">> \o <<"0", "x">> \o Rep("a", 40),
    <<"0", "x">> \o Rep("a", 39) \o <<"z">>,
    Rep("1", 32), Rep("1", 31), Rep("z", 44), Rep("z", 45),
    Rep("1", 31) \o <<"0">>, Rep("1", 31) \o <<"l">>,
    Rep("1", 31) \o <<"O">>, Rep("1", 31) \o <<"I">>,
    <<"0", "x">> \o Rep("1", 40) }

\* walletManager.validateWalletProvider(provider)
ValidateWalletProvider(type, key, url) ==
  LET provider == [type |-> type, privateKey |-> key, rpcUrl |-> url]
  IN /\ pf' = [fn |-> "provider", arg |-> provider, type |-> type,
               ret |-> validateWalletProvider(provider)]
     /\ UNCHANGED <<build, ivCtr, hvars, rvars, lvars, cvars, config, hist>>

\* securityManager.validateWalletAddress(address, type)
ValidateWalletAddress(address, type) ==
  /\ pf' = [fn |-> "address", arg |-> address, type |-> type,
            ret |-> validateWalletAddress(address, type)]
  /\ UNCHANGED <<build, ivCtr, hvars, rvars, lvars, cvars, config, hist>>

NextValid ==
  \/ \E type \in ValTypes, key \in ValKeys, url \in ValUrls :
       ValidateWalletProvider(type, key, url)
  \/ \E address \in ValAddresses, type \in ValTypes :
       ValidateWalletAddress(address, type)

SpecValid == Init /\ [][NextValid]_vars

-----------------------------------------------------------------------------
(* Claims about the cipher, checked under SpecCipher *)

\* C2: round trip: for every plaintext p, decrypt(encrypt(p)) returns
\* exactly p.
C2_RoundTrip ==
  /\ cev.op = "encrypt" => cev.res.ok
  /\ (cev.op = "decrypt" /\ cev.mods = {} /\ cev.arg \in made)
       => cev.res.ok /\ cev.res.val = orig

\* C3: tamper detection: once a single hex character of the tag or of the
\* ciphertext component of a blob made by encrypt is changed, decrypt fails;
\* it never returns a plaintext for the modified blob.
C3_TamperDetected ==
  (cev.op = "decrypt" /\ cev.mods # {} /\ cev.mods \subseteq {"tag-hex", "ct-hex"})
    => ~cev.res.ok

HexComp(c) == IF c.k = "t" THEN c.s \in {"k1", "ff"} ELSE c.hex

\* C4: malformed input: decrypt fails, and returns no plaintext, for every
\* string with a wrong number of ':'-separated components or with a
\* component that is not valid hex.  Stated for the strings that are
\* malformed under the three-component and the two-component format alike:
\* more than three components, none at all, or a non-hex component.
C4_MalformedRejected ==
  (cev.op = "decrypt"
     /\ (Len(cev.arg) > 3 \/ Len(cev.arg) < 2
           \/ \E i \in 1..Len(cev.arg) : ~HexComp(cev.arg[i])))
    => ~cev.res.ok

\* C5: IV freshness: every blob encrypt returns differs from every blob it
\* returned before, and the IV the cipher ran with is the fresh random IV
\* that the blob carries.
C5_IvFresh ==
  (cev.op = "encrypt" /\ cev.res.ok)
    => cev.fresh /\ cev.res.val[2].iv = cev.res.val[1].n

-----------------------------------------------------------------------------
(* Claims about the wallet registry, checked under Spec *)

\* the form encrypt returns: a random IV and a ciphertext, both hex
IsBlob(v) == Len(v) = 2 /\ v[1].k = "iv" /\ v[2].k = "ct"

\* the record the map holds for a user
NoRecord == [none |-> TRUE]
RecordOf(u) == IF wallets[u] = 0 THEN NoRecord ELSE heap[wallets[u]]

\* C1: registry invariant: every record the map holds has its privateKey
\* and, when present, its crossmintApiKey in encrypted-blob form.
C1_StoredEncrypted ==
  \A u \in Users :
    wallets[u] # 0 =>
      LET wp == heap[wallets[u]].walletProvider
      IN /\ IsBlob(wp.privateKey)
         /\ wp.crossmintApiKey # Undefined => IsBlob(wp.crossmintApiKey)

\* C6 as claimed: a getWallet that follows a successful registerWallet(u, p),
\* with no register, update or remove for u in between, returns p's
\* privateKey and p's crossmintApiKey, absent exactly when p had none.
C6_RegistryRoundTrip ==
  (ev.op = "get" /\ ev.done /\ ev.exp # NoWP /\ ev.clean)
    => /\ ev.retB
       /\ ev.retWP.privateKey = ev.exp.privateKey
       /\ ev.retWP.crossmintApiKey = ev.exp.crossmintApiKey

\* C6 as amended: the same, the crossmintApiKey being absent when p had
\* none or had the empty string.
C6_RegistryRoundTripAmended ==
  (ev.op = "get" /\ ev.done /\ ev.exp # NoWP /\ ev.clean)
    => /\ ev.retB
       /\ ev.retWP.privateKey = ev.exp.privateKey
       /\ ev.retWP.crossmintApiKey =
            (IF Falsy(ev.exp.crossmintApiKey) THEN Undefined
             ELSE ev.exp.crossmintApiKey)

C6_Witness ==
  /\ ev.op = "get" /\ ev.done /\ ev.retB /\ ev.clean
  /\ ev.exp # NoWP
  /\ ev.retWP.crossmintApiKey = Txt("a1")
  /\ ev.retWP.privateKey = Txt("k2")

\* C7: registry isolation: a step of a call made for one user leaves the
\* record of every other user as it was, and a getWallet for a user whose
\* registration was followed by another user's returns the secret the user
\* registered.
C7_Isolation ==
  /\ [][\A a \in Users : ev'.user # a => RecordOf(a)' = RecordOf(a)]_vars
  /\ [](((ev.op = "get" /\ ev.done /\ ev.exp # NoWP /\ ev.clean)
           => (ev.retB /\ ev.retWP.privateKey = ev.exp.privateKey)))

C7_Witness ==
  /\ ev.op = "get" /\ ev.done /\ ev.retB /\ ev.clean /\ ev.exp # NoWP
  /\ \E b \in Users : b # ev.user /\ wallets[b] > wallets[ev.user]
  /\ ev.retWP.privateKey = ev.exp.privateKey

\* C8: idempotent removal: removeWallet(u) on an active record returns true,
\* an immediately repeated removeWallet(u) returns false, and hasWallet(u) is
\* false after the first.
C8_IdempotentRemoval ==
  [][(ev.op = "remove" /\ ev.pre = "active")
       => /\ ev.retB /\ ~hasWallet(ev.user)
          /\ (ev'.op = "remove" /\ ev'.user = ev.user) => ~ev'.retB]_vars

\* C9: removeWallet(u) returns true exactly when the map holds a record for
\* u; it then sets isActive to false and keeps the record, so the number of
\* records is unchanged; with no record it returns false and changes nothing.
C9_RemoveRetains ==
  [][ev'.op = "remove" =>
       LET u == ev'.user
       IN /\ ev'.retB = (wallets[u] # 0)
          /\ wallets' = wallets
          /\ getStats'.total = getStats.total
          /\ wallets[u] # 0 => heap' = [heap EXCEPT ![wallets[u]].isActive = FALSE]
          /\ wallets[u] = 0 => heap' = heap]_vars

C9_Witness ==
  ev.op = "remove" /\ ev.retB /\ ev.pre = "active" /\ StateOf(ev.user) = "inactive"

\* C10: a decryption failure in getWallet reaches the caller as a failure:
\* the result differs from the null that stands for "no wallet".
C10_CryptoFailureSurfaced ==
  (ev.op = "get" /\ ev.done /\ ev.why = "crypto")
    => <<ev.retB, ev.retWP>> # <<FALSE, NoWP>>

\* encrypt's blob of the plaintext p
BlobOf(v, p) == IsBlob(v) /\ v[2].p = p

\* C17: partial success: when the record is stored and initializeTools then
\* throws, registerWallet returns true and the record stays: hasWallet is
\* true, the record holds the registered key, and a getWallet that follows
\* returns the registered secrets.
C17_PartialSuccess ==
  /\ (ev.op = "register" /\ ev.done /\ ev.init = "failed")
       => /\ ev.retB
          /\ hasWallet(ev.user)
          /\ reg[ev.user] = ev.arg
          /\ BlobOf(RecordOf(ev.user).walletProvider.privateKey, ev.arg.privateKey)
  /\ (ev.op = "get" /\ ev.done /\ ev.clean /\ ev.exp # NoWP
        /\ initializeTools(goat, ev.exp) = "failed")
       => /\ ev.retB
          /\ ev.retWP.privateKey = ev.exp.privateKey
          /\ Truthy(ev.exp.crossmintApiKey)
               => ev.retWP.crossmintApiKey = ev.exp.crossmintApiKey

C17_Witness ==
  /\ ev.op = "get" /\ ev.done /\ ev.retB /\ ev.clean /\ ev.exp # NoWP
  /\ initializeTools(goat, ev.exp) = "failed"
  /\ ev.retWP.privateKey = Txt("k1")

\* C18: updateWallet(u, fields) returns false when u has no record or a
\* record with isActive false, and then changes nothing in the registry.
C18_UpdateNeedsActive ==
  [][(ev'.op = "update" /\ StateOf(ev'.user) # "active")
       => (ev'.done /\ ~ev'.retB /\ wallets' = wallets /\ heap' = heap)]_vars

C18_Witness ==
  /\ ev.op = "update" /\ ev.done /\ ~ev.retB /\ ev.pre = "inactive"
  /\ Has(ev.arg, "privateKey") /\ ev.arg.privateKey = Txt("k2")

Secrets == {"privateKey", "crossmintApiKey"}

\* C19: a successful updateWallet(u, fields) changes only the fields named
\* in `fields`: a privateKey or crossmintApiKey named there is stored
\* encrypted, another field named there is stored as given, and the other
\* fields, isActive, createdAt, lastUsed and the records of the other users
\* stay as they were.
C19_UpdateFrame ==
  [][(ev'.op = "update" /\ ev'.done /\ ev'.retB)
       => LET u == ev'.user
              ref == wallets[u]
              old == heap[ref].walletProvider
              new == heap'[ref].walletProvider
          IN /\ wallets' = wallets
             /\ \A i \in DOMAIN heap : i # ref => heap'[i] = heap[i]
             /\ heap' = [heap EXCEPT ![ref].walletProvider = new]
             /\ \A f \in DOMAIN old \ DOMAIN ev'.arg : new[f] = old[f]
             /\ \A f \in DOMAIN ev'.arg \ Secrets : new[f] = ev'.arg[f]
             /\ \A f \in DOMAIN ev'.arg \cap Secrets : IsBlob(new[f])]_vars

\* C20: hasWallet(u) is true exactly when the map holds a record for u and
\* that record has isActive true.
C20_HasIffActive ==
  /\ \A u \in Users :
       hasWallet(u) = (RecordOf(u) # NoRecord /\ RecordOf(u).isActive)
  /\ ev.op = "has" => ev.retB = (StateOf(ev.user) = "active")

C20_Witness == ev.op = "has" /\ ~ev.retB /\ StateOf(ev.user) = "inactive"

\* C21: getWallet(u) returns null whenever u has no record or a record with
\* isActive false; a retired record becomes active again only by a
\* registerWallet for that user, so after removeWallet(u) getWallet(u) keeps
\* returning null until then.
C21_GetNoneUnlessActive ==
  /\ []((ev.op = "get" /\ ev.done /\ ev.pre # "active")
          => (~ev.retB /\ ev.retWP = NoWP))
  /\ [][\A u \in Users :
          (StateOf(u) # "active" /\ StateOf(u)' = "active")
            => (ev'.op = "register" /\ ev'.user = u)]_vars

C21_Witness ==
  /\ ev.op = "get" /\ ev.done /\ ~ev.retB /\ ev.why = "inactive"
  /\ StateOf(ev.user) = "inactive"

\* C27: getStats returns as total the number of records the map holds,
\* retired ones included, and as active the number of those with isActive
\* true; always 0 <= active <= total, and no operation lowers total.
C27_Stats ==
  /\ [](/\ getStats.total = Cardinality({u \in Users : RecordOf(u) # NoRecord})
        /\ getStats.active =
             Cardinality({u \in Users : StateOf(u) = "active"})
        /\ 0 <= getStats.active /\ getStats.active <= getStats.total)
  /\ [][getStats'.total >= getStats.total]_vars

C27_Witness ==
  /\ ev.op = "remove" /\ ev.done /\ ev.retB
  /\ getStats.total = 2 /\ getStats.active = 1

\* C36: pass by value at the registry boundary: no step of a getWallet
\* changes the provider a record stores, and no step of an updateWallet
\* changes the `updates` object its caller passed.
C36_PassByValue ==
  [][/\ ev'.op = "get" =>
          \A i \in DOMAIN heap :
            heap'[i] # Collected => heap'[i].walletProvider = heap[i].walletProvider
     /\ \A t \in Tasks :
          (tasks[t].op = "update" /\ tasks'[t] # tasks[t]) =>
            tasks[t].arg = IF tasks'[t].op = "update" THEN tasks'[t].arg
                                                      ELSE ev'.arg]_vars

\* the record of every user
Records == [u \in Users |-> RecordOf(u)]

\* C34: a failed register leaves the registry unchanged: a registerWallet
\* whose address derivation or encryption fails returns false, and a
\* registerWallet that returns false has changed no user's record: the one
\* step of a registerWallet that writes is followed by the return of true.
C34_FailedRegisterFrame ==
  [][ev'.op = "register" =>
       /\ (ev'.done /\ ~ev'.retB) => Records' = Records
       /\ Records' # Records =>
            \E t \in Tasks : tasks'[t].op = "register" /\ tasks'[t].pc = "init"
       /\ \A t \in Tasks :
            (tasks[t].op = "register" /\ tasks'[t].op = "idle") =>
              /\ tasks[t].pc = "init" => ev'.retB
              /\ (tasks[t].pc # "init" /\ ~tasks[t].r.ok) =>
                   (~ev'.retB /\ Records' = Records)]_vars

C34_Witness ==
  /\ ev.op = "register" /\ ev.done /\ ~ev.retB
  /\ build = "cbc"
  /\ \A u \in Users : StateOf(u) = "active"

-----------------------------------------------------------------------------
(* Claims about the wallet registry, checked under SpecClock *)

\* C16: re-registration replaces: a registerWallet(u, p2) that stores over an
\* earlier record of u, active or retired, leaves a record made of p2 alone:
\* isActive true, createdAt and lastUsed the time of the call, p2's fields
\* (type, rpcUrl, chainId, address) with the secrets encrypted, no
\* crossmintApiKey when p2 has none, whatever the old record held; a
\* getWallet after it returns no crossmintApiKey when p2 had none.
C16_ReRegistrationReplaces ==
  /\ [][(ev'.op = "register" /\ wallets[ev'.user] # 0
           /\ wallets'[ev'.user] # wallets[ev'.user])
         => LET u == ev'.user
                p == ev'.arg
                r == heap'[wallets'[u]]
                wp == r.walletProvider
            IN /\ r.userId = u /\ r.isActive
               /\ r.createdAt = now
               /\ r.createdAt <= r.lastUsed /\ r.lastUsed = now'
               /\ DOMAIN wp = DOMAIN p
               /\ wp.type = p.type /\ wp.rpcUrl = p.rpcUrl
               /\ wp.chainId = p.chainId
               /\ BlobOf(wp.privateKey, p.privateKey)
               /\ IF Truthy(p.crossmintApiKey)
                    THEN BlobOf(wp.crossmintApiKey, p.crossmintApiKey)
                    ELSE wp.crossmintApiKey = Undefined
               /\ wp.address = (IF p.type = "evm" /\ Falsy(p.address)
                                  THEN DeriveAddress(p.privateKey) ELSE p.address)]_vars
  /\ []((ev.op = "get" /\ ev.done /\ ev.clean /\ ev.exp # NoWP
           /\ Falsy(ev.exp.crossmintApiKey))
          => (ev.retB /\ ev.retWP.crossmintApiKey = Undefined))

C16_Witness ==
  /\ ev.op = "register" /\ ~ev.done /\ ev.pre = "inactive" /\ ev.hadApi
  /\ now = 1
  /\ RecordOf(ev.user).isActive
  /\ RecordOf(ev.user).createdAt = 1
  /\ RecordOf(ev.user).walletProvider.crossmintApiKey = Undefined
  /\ ev.hadChain # RecordOf(ev.user).walletProvider.chainId

\* C35: lastUsed is refreshed by every getWallet that returns a provider and
\* by nothing else: a getWallet that returns null, hasWallet, updateWallet
\* and removeWallet leave the lastUsed of the user's record as it was.
C35_LastUsed ==
  [][\A u \in Users :
       (wallets[u] # 0 /\ wallets'[u] = wallets[u]) =>
         /\ heap'[wallets[u]].lastUsed # heap[wallets[u]].lastUsed =>
              (ev'.op = "get" /\ ev'.done /\ ev'.retB /\ ev'.user = u)
         /\ (ev'.op = "get" /\ ev'.done /\ ev'.retB /\ ev'.user = u) =>
              heap'[wallets[u]].lastUsed = now]_vars

C35_Witness ==
  /\ ev.op = "get" /\ ev.done /\ ev.retB
  /\ now = 1
  /\ RecordOf(ev.user).createdAt = 0
  /\ RecordOf(ev.user).lastUsed = 1

\* C15: linearizability for one user: a getWallet that overlaps other calls
\* for the same user returns what a getWallet made alone would have returned
\* at some moment between its call and its return.
C15_Linearizable == (ev.op = "get" /\ ev.done) => ev.retWP \in ev.views

\* C29: torn-read freedom: the provider a getWallet returns has all its
\* fields from one version of the user's record, one that was stored at some
\* moment between its call and its return, also when an updateWallet or a
\* registerWallet completes at its awaits.
C29_NoTornRead ==
  (ev.op = "get" /\ ev.done /\ ev.retB) =>
    \E v \in ev.views \ {NoWP} :
      /\ v.privateKey = ev.retWP.privateKey
      /\ v.crossmintApiKey = ev.retWP.crossmintApiKey
      /\ v.rpcUrl = ev.retWP.rpcUrl
      /\ v.address = ev.retWP.address
      /\ v.type = ev.retWP.type
      /\ v.chainId = ev.retWP.chainId

\* C30: no stale write by update: an updateWallet that returns true has
\* merged its fields into the record the map holds for the user at that
\* moment, and that record is active.
C30_NoStaleWrite ==
  [][\A t \in Tasks :
       (/\ tasks[t].op = "update" /\ tasks'[t].op = "idle"
        /\ ev'.op = "update" /\ ev'.done /\ ev'.retB
        /\ ev'.user = tasks[t].user)
         => /\ wallets[tasks[t].user] = tasks[t].ref
            /\ heap[tasks[t].ref].isActive]_vars

-----------------------------------------------------------------------------
(* Claims about the rate limiter, checked under SpecRate *)

\* C11 as claimed: while one counter is live and every call names the same
\* limit, at most `limit` calls are admitted and a call is rejected only
\* when `limit` have been; a call that finds no live counter is admitted and
\* leaves a counter with count 1 and resetTime = now + windowMs.
C11_WindowLimit ==
  /\ \A u \in Users : rl[u].same => rl[u].adm <= rl[u].lim
  /\ (rev.op = "check" /\ rl[rev.user].same /\ ~rev.ret)
       => rl[rev.user].adm >= rl[rev.user].lim
  /\ (rev.op = "check" /\ ~rev.live)
       => /\ rev.ret
          /\ rateLimitMap[rev.user] = [count |-> 1, resetTime |-> now + rev.windowMs]

\* C11 as amended: the same for a limit of at least 1.
C11_WindowLimitAmended ==
  /\ \A u \in Users : (rl[u].same /\ rl[u].lim >= 1) => rl[u].adm <= rl[u].lim
  /\ (rev.op = "check" /\ rl[rev.user].same /\ ~rev.ret)
       => rl[rev.user].adm >= rl[rev.user].lim
  /\ (rev.op = "check" /\ ~rev.live)
       => /\ rev.ret
          /\ rateLimitMap[rev.user] = [count |-> 1, resetTime |-> now + rev.windowMs]

C11_Witness ==
  /\ rev.op = "check" /\ rev.live /\ ~rev.ret /\ rev.limit = 2
  /\ rl[rev.user].same /\ rl[rev.user].adm = 2

\* C12: a checkRateLimit that finds a live counter with count >= limit
\* returns false and leaves the whole map as it was.
C12_RejectKeepsState ==
  [][(/\ rev'.op = "check"
      /\ ~NoLive(rateLimitMap, rev'.user, now)
      /\ rateLimitMap[rev'.user].count >= rev'.limit)
       => (~rev'.ret /\ rateLimitMap' = rateLimitMap)]_vars

C12_Witness ==
  /\ rev.op = "check" /\ rev.live /\ ~rev.ret
  /\ \E v \in Users : v # rev.user /\ rateLimitMap[v] # NoEntry

\* C13: every checkRateLimit returns what it returns when the same calls are
\* made at the same times with no cleanupRateLimits among them.
C13_CleanupUnobservable == rev.op = "check" => rev.ret = rev.plain

C13_Witness == rev.op = "check" /\ rev.swept /\ rev.ret /\ rev.limit >= 1

\* C14: cleanupRateLimits deletes the counters whose resetTime has passed and
\* leaves every other counter, its count and resetTime, as it was.
C14_CleanupOnlyExpired ==
  [][rev'.op = "cleanup" =>
       \A u \in Users :
         rateLimitMap'[u] =
           (IF NoLive(rateLimitMap, u, now) THEN NoEntry ELSE rateLimitMap[u])]_vars

C14_Witness ==
  /\ rev.op = "cleanup"
  /\ \E u, v \in Users :
       /\ rateLimitMap[u] = NoEntry /\ noClean[u] # NoEntry
       /\ rateLimitMap[v] # NoEntry /\ now <= rateLimitMap[v].resetTime

\* C38: each identity has at most one counter, every stored counter has
\* count >= 1, and while all calls under a counter use one limit L >= 1 its
\* count never exceeds L.
C38_CounterInvariant ==
  /\ DOMAIN rateLimitMap = Users
  /\ \A u \in Users :
       rateLimitMap[u] # NoEntry =>
         /\ DOMAIN rateLimitMap[u] = {"count", "resetTime"}
         /\ rateLimitMap[u].count >= 1
         /\ (rl[u].same /\ rl[u].lim >= 1) => rateLimitMap[u].count <= rl[u].lim

\* a call was rejected with the counter at the one limit all calls used
C38_Witness ==
  /\ rev.op = "check" /\ ~rev.ret
  /\ rl[rev.user].same /\ rl[rev.user].lim = MaxLimit
  /\ rateLimitMap[rev.user].count = MaxLimit

\* the map a call would leave if it knew no counter but its caller's
OwnOnly(m, u) == [w \in DOMAIN m |-> IF w = u THEN m[w] ELSE NoEntry]

\* C39: checkRateLimit(a, ...) neither creates, changes nor removes the
\* counter of another identity b, and what it returns is what it would
\* return if no other identity had a counter.
C39_Isolation ==
  [][rev'.op = "check" =>
       /\ \A v \in Users \ {rev'.user} : rateLimitMap'[v] = rateLimitMap[v]
       /\ rev'.ret = checkRateLimit(OwnOnly(rateLimitMap, rev'.user),
                                    rev'.user, rev'.limit, rev'.windowMs,
                                    now).ret]_vars

\* a first call of u1 was admitted while u2 sat at its limit
C39_Witness ==
  /\ rev.op = "check" /\ rev.user = "u1" /\ rev.ret /\ ~rev.live
  /\ rateLimitMap["u2"] # NoEntry
  /\ rl["u2"].same /\ rl["u2"].lim = MaxLimit
  /\ rateLimitMap["u2"].count = MaxLimit
  /\ now <= rateLimitMap["u2"].resetTime

-----------------------------------------------------------------------------
(* Claims about the rate limiter, checked under SpecBurst *)

\* history: the calls admitted at the instants first..last
AdmittedIn(first, last) ==
  Cardinality({i \in 1..Len(hist.times) : hist.times[i] \in first..last})

\* C31: boundary burst bound: with one limit L >= 1 and one window W, the
\* calls admitted in any interval of length W are at most 2 * L.  (The
\* witness: 2 * L calls admitted in a row across the end of a window.)
C31_BurstBound ==
  \A s \in 0..MaxNow : AdmittedIn(s, s + hist.windowMs) <= 2 * hist.limit

C31_Witness ==
  /\ hist.limit = MaxLimit /\ hist.windowMs = MaxWindow
  /\ Len(hist.times) = 2 * hist.limit
  /\ hist.times[2 * hist.limit] - hist.times[1] = hist.windowMs + 1
  /\ AdmittedIn(hist.times[1] + 1, hist.times[1] + 1 + hist.windowMs)
       = 2 * hist.limit - 1

-----------------------------------------------------------------------------
(* Claims about the wallet registry, checked under SpecAddr *)

\* C25: address derivation on register: the record registerWallet stored
\* for provider p holds the address derived from p's private key when p is
\* an EVM wallet without address, and p's own address in every other case.
C25_AddressDerivation ==
  \A u \in Users :
    (reg[u] # NoWP /\ wallets[u] # 0) =>
      heap[wallets[u]].walletProvider.address =
        IF reg[u].type = "evm" /\ Falsy(reg[u].address)
          THEN DeriveAddress(reg[u].privateKey)
          ELSE reg[u].address

C25_Witness ==
  /\ reg["u1"] # NoWP /\ reg["u1"].type = "evm" /\ reg["u1"].address = Undefined
  /\ heap[wallets["u1"]].walletProvider.address = DeriveAddress(reg["u1"].privateKey)
  /\ reg["u2"] # NoWP /\ reg["u2"].type = "evm" /\ reg["u2"].address = Txt("ad")
  /\ heap[wallets["u2"]].walletProvider.address = Txt("ad")

-----------------------------------------------------------------------------
(* Claims about the validators, checked under SpecValid *)

\* the key as C26 speaks of it, without a leading 0x (validateEvmWallet
\* itself takes Replace0x of the key)
StripPrefix(key) ==
  IF Len(key) >= 2 /\ key[1] = "0" /\ key[2] = "x"
    THEN SubSeq(key, 3, Len(key)) ELSE key

\* C26: validateWalletProvider returns true only if type, privateKey and
\* rpcUrl are all present and the key passes the rule of its type: for evm
\* the key without its leading 0x is exactly 64 hex characters, for solana
\* the key has the minimum length; for every other type it returns false.
C26_ValidateProvider ==
  (pf.fn = "provider" /\ pf.ret) =>
    /\ pf.arg.type # "" /\ pf.arg.privateKey # <<>> /\ pf.arg.rpcUrl # <<>>
    /\ pf.arg.type \in {"evm", "solana"}
    /\ pf.arg.type = "evm" =>
         /\ Len(StripPrefix(pf.arg.privateKey)) = 64
         /\ AllIn(StripPrefix(pf.arg.privateKey), HexChars)
    /\ pf.arg.type = "solana" => Len(pf.arg.privateKey) >= 32

\* C28: validateWalletAddress(address, type) is true exactly when type is
\* evm and the address is 0x followed by exactly 40 hex characters, or type
\* is solana and the address is 32 to 44 characters of the base58 alphabet;
\* so 0x with 40 'a' is accepted and 0x with 39 'a' is rejected.
C28_ValidateAddress ==
  pf.fn = "address" =>
    /\ pf.ret <=>
         \/ /\ pf.type = "evm"
            /\ Len(pf.arg) = 42
            /\ SubSeq(pf.arg, 1, 2) = <<"0", "x">>
            /\ \A i \in 3..42 : pf.arg[i] \in HexChars
         \/ /\ pf.type = "solana"
            /\ Len(pf.arg) \in 32..44
            /\ \A i \in 1..Len(pf.arg) : pf.arg[i] \in Base58Chars
    /\ (pf.type = "evm" /\ pf.arg = <<"0", "x">> \o Rep("a", 40)) => pf.ret
    /\ (pf.type = "evm" /\ pf.arg = <<"0", "x">> \o Rep("a", 39)) => ~pf.ret

C28_Witness ==
  /\ pf.fn = "address" /\ pf.type = "evm" /\ ~pf.ret
  /\ pf.arg = <<"0", "x">> \o Rep("a", 39) \o <<"z">>

-----------------------------------------------------------------------------
(* Claims about the command layer, checked under SpecCmd *)

Occurrences(sq, x) == Cardinality({i \in 1..Len(sq) : sq[i] = x})

\* C22: admission before access: for every interaction checkRateLimit is
\* called exactly once for the issuing user, before anything else, and not
\* again when the handler goes on after an await; when it rejects, no
\* handler runs and neither the registry nor the setup data is touched.
C22_AdmissionBeforeAccess ==
  /\ [](cmd.pc # "idle" =>
          /\ cmd.trace[1] = "checkRateLimit"
          /\ Occurrences(cmd.trace, "checkRateLimit") = 1
          /\ (~cmd.admitted =>
                cmd.trace = <<"checkRateLimit">> /\ cmd.reply = "rate-limited"))
  /\ [][(cmd'.entry /\ (cmd' # cmd \/ rateLimitMap' # rateLimitMap)) =>
          LET r == checkRateLimit(rateLimitMap, cmd'.user, DefaultLimit,
                                  DefaultWindowMs, now)
          IN /\ rateLimitMap' = r.map
             /\ cmd'.admitted = r.ret
             /\ rev'.op = "check" /\ rev'.user = cmd'.user
             /\ (~r.ret => UNCHANGED <<wallets, heap, tasks, ev, ivCtr,
                                       tempWalletData, tools, handlers>>)]_vars
  /\ [][(cmd' # cmd /\ ~cmd'.entry) =>
          (cmd'.admitted /\ UNCHANGED <<rateLimitMap, rev>>)]_vars

C22_Witness ==
  /\ cmd.pc = "done" /\ ~cmd.admitted /\ cmd.name = "set-private-key"
  /\ hasWallet(cmd.user)
  /\ rateLimitMap[cmd.user].count = DefaultLimit

\* C23: no private key in plain text: whenever no interaction is being
\* handled, neither a record of the wallet map nor a user's temporary setup
\* data holds a private key other than in the form encrypt returns.
C23_NoPlaintextKey ==
  Calm =>
    \A u \in Users :
      /\ wallets[u] # 0 => IsBlob(heap[wallets[u]].walletProvider.privateKey)
      /\ tempWalletData[u] # NoTemp =>
           \/ tempWalletData[u].privateKey = Undefined
           \/ IsBlob(tempWalletData[u].privateKey)

\* C24: once a user holds a wallet registered through the setup commands,
\* an admitted /balance of that user runs the getBalance tool on that user's
\* wallet: executeTransaction does not throw and reports the address of the
\* user's record.
C24_BalanceOnOwnWallet ==
  (cmd.name = "balance" /\ cmd.pc = "done" /\ cmd.admitted
     /\ hasWallet(cmd.user))
    => /\ cmd.res.ok
       /\ cmd.res.val = heap[wallets[cmd.user]].walletProvider.address

\* the interaction handled last completed the pair /set-private-key and
\* /set-rpc-url of its user with a key ethers accepts: either the key came
\* last and found the URL in the setup data, or the URL came last and found
\* the key
BothIssued ==
  /\ cmd.pc = "done" /\ cmd.admitted
  /\ \/ /\ cmd.name = "set-private-key"
        /\ ValidEvmKey(tempWalletData[cmd.user].privateKey)
        /\ Truthy(tempWalletData[cmd.user].rpcUrl)
     \/ /\ cmd.name = "set-rpc-url"
        /\ cmd.trace = <<"checkRateLimit", "execute", "registerWallet">>
        /\ ev.op = "register" /\ ev.user = cmd.user
        /\ ValidEvmKey(ev.arg.privateKey)

\* C32: wallet setup completes in either order: once a user has issued
\* /set-private-key and /set-rpc-url with valid values, the user has a
\* registered wallet and no temporary setup data.
C32_SetupEitherOrder ==
  BothIssued => (hasWallet(cmd.user) /\ tempWalletData[cmd.user] = NoTemp)

\* C33: when /set-rpc-url replies that the wallet is ready the user has a
\* wallet; when registerWallet returned false the reply is another one and
\* the setup data is still there.
C33_ReadyMeansRegistered ==
  (cmd.name = "set-rpc-url" /\ cmd.pc = "done" /\ cmd.admitted) =>
    /\ cmd.reply = "wallet-ready" => hasWallet(cmd.user)
    /\ cmd.res = Returned(FALSE) =>
         (cmd.reply # "wallet-ready" /\ tempWalletData[cmd.user] # NoTemp)

-----------------------------------------------------------------------------
(* Claims about the command layer, checked under SpecCmdEnv (the clock      *)
(* stands still, so all commands of a user fall into one window)            *)

\* C37: the rate limit on commands is the configured one: with
\* config.rateLimiting.max = M a user's commands are admitted up to the
\* M-th and rejected from the (M+1)-th on: an admitted command is at most
\* the M-th admitted, and a command is rejected only after M were admitted.
C37_ConfiguredLimit ==
  cmd.pc # "idle" =>
    /\ cmd.admitted => rl[cmd.user].adm <= config.max
    /\ ~cmd.admitted => rl[cmd.user].adm >= config.max

====
